---- MODULE Spec2Model ----
(***************************************************************************)
(* A model of the mzr daemon (src/src/daemon.rs), the namespace handshake  *)
(* it forks its zone processes with (src/src/namespaces.rs) and the zone   *)
(* metadata it loads (src/src/zone.rs).                                    *)
(*                                                                         *)
(* Processes: the daemon (one thread, position dpc), the zone processes    *)
(* it clones (one entry of anchors per clone, position pc) and the clients *)
(* that connect to the daemon socket.  A stream is a sequence of chunks    *)
(* ("bytes"); the newline byte is the chunk NL.  A clone copies the file   *)
(* descriptor table, so every socket end records the processes that hold   *)
(* it open: a read sees end-of-file only when no process holds the peer.   *)
(*                                                                         *)
(* fork_zone_process calls with_unshared_user_and_mount with a mapping     *)
(* function and the child body; namespaces.rs defines it with the child    *)
(* body only and maps with map_user_to_root.  The model follows the steps  *)
(* of namespaces.rs: init_ipc, clone, the three writes, send_ready.        *)
(***************************************************************************)
EXTENDS Integers, Sequences, FiniteSets, TLC

\* Number of connections made to the daemon socket.
MaxConns == 2
\* Number of clones the daemon makes (process ids 1..MaxForks).
MaxForks == 2

Zones == {"z1", "z2"}
Pids == 1..MaxForks
Conns == 1..MaxConns
NoPid == 0
NL == "\n"
\* The daemon, as a holder of descriptors next to the pids of its clones.
Daemon == -1

VARIABLES
    zoneDisk,      \* zone name -> what Zone::load_if_exists finds on disk
    processes,     \* the daemon's ProcessMap: zone name -> pid (NoPid: no entry)
    dpc,           \* position of the daemon's thread
    cur,           \* the connection being handled (0: none)
    curZone,       \* zone_name of the request being handled
    curPid,        \* child_pid of the clone made for the request being handled
    result,        \* the Response handle_client has computed (tag "none": not yet)
    regAtAccept,   \* the ProcessMap as it was when the connection was accepted
    conns,         \* the connections made to the daemon socket
    anchors,       \* the processes cloned by with_unshared_user_and_mount
    mounts,        \* zone name -> number of overlay mounts made (Zone::mount)
    forks,         \* zone name -> number of processes cloned for the zone
    \* The merge engine (merge.rs): the three trees and the plans made of them.
    changes,       \* path -> entry of the zone's change layer (ovfs_changes_dir)
    target,        \* path -> what symlink_metadata finds in the target tree
    snapshot,      \* path -> what symlink_metadata finds in the snapshot
    walkOrder,     \* the order in which WalkDir yields the change layer
    mpc,           \* position of the process that merges
    mode,          \* the Mode interactive_merge was called with
    plan,          \* the Plan of plan_merging_zone_changes
    plan2,         \* the Plan of a second run, after the updates were applied
    reported,      \* the paths interactive_merge has printed
    \* Zone creation (zone.rs): the metadata directory and the creating processes.
    snapDirs,      \* the snapshot names whose snap/<name> directory exists
    zoneFs,        \* zone name -> what exists under zone/<name>
    creators,      \* the processes running Zone::create
    \* The commands of the mzr client (lib.rs) and what they work on.
    enterers,      \* the processes running enter_container
    snapFs,        \* snapshot name -> what is at snap-tmp/<name> and snap/<name>
    snappers,      \* the processes running snapshot::create
    callers,       \* the processes running get_zone_process
    runners,       \* the processes running `mzr run`
    cmp            \* a call of metadata_matches: its arguments and its result

dvars == <<zoneDisk, processes, dpc, cur, curZone, curPid, result, regAtAccept,
           conns, anchors, mounts, forks>>
mvars == <<changes, target, snapshot, walkOrder, mpc, mode, plan, plan2,
           reported>>
zvars == <<snapDirs, zoneFs, creators>>
xvars == <<enterers, snapFs, snappers, callers>>
rvars == <<runners, cmp>>
vars == <<dvars, mvars, zvars, xvars, rvars>>

----------------------------------------------------------------------------
(* Requests, responses and their wire format.                               *)

NoResponse == [tag |-> "none", pid |-> NoPid, msg |-> ""]
ResponseZoneProcess(p) == [tag |-> "ZoneProcess", pid |-> p, msg |-> ""]
ResponseError(m) == [tag |-> "Error", pid |-> NoPid, msg |-> m]
UnexpectedError(e) == ResponseError("Unexpected error: " \o e)

RequestZoneProcess(z) == [tag |-> "ZoneProcess", zone |-> z]
NoRequest == [tag |-> "none", zone |-> ""]

\* serde_json::to_writer of a Request: {"ZoneProcess":"<name>"}
to_writer_request(r) == <<"{", r.tag, ":", r.zone, "}">>

\* serde_json::to_writer of a Response: {"ZoneProcess":<pid>} or {"Error":"<msg>"}
to_writer_response(r) ==
    IF r.tag = "ZoneProcess" THEN <<"{", r.tag, ":", ToString(r.pid), "}">>
    ELSE <<"{", r.tag, ":", r.msg, "}">>

\* send_request without its stream.write_all(b"\n").
send_request_unterminated(r) == to_writer_request(r)

\* send_request: the serialized request, then one newline.
send_request(r) == to_writer_request(r) \o <<NL>>

\* send_response: the serialized response.
send_response(r) == to_writer_response(r)

\* BufRead::read_until(b'\n'): everything up to and including the first
\* newline, or everything there is when the stream ends without one.
read_until(buf) ==
    IF \E i \in 1..Len(buf) : buf[i] = NL
    THEN SubSeq(buf, 1, CHOOSE i \in 1..Len(buf) :
                          /\ buf[i] = NL
                          /\ \A j \in 1..(i - 1) : buf[j] # NL)
    ELSE buf

\* The read returns once a newline has arrived or no process holds the peer.
can_read_until(buf, peerHolders) ==
    \/ \E i \in 1..Len(buf) : buf[i] = NL
    \/ peerHolders = {}

RECURSIVE trim_end(_)
\* serde_json skips whitespace after the value.
trim_end(data) ==
    IF Len(data) > 0 /\ data[Len(data)] = NL
    THEN trim_end(SubSeq(data, 1, Len(data) - 1))
    ELSE data

\* serde_json::from_slice::<Request>: Ok(request) or Err (tag "none").
from_slice_request(data) ==
    LET t == trim_end(data) IN
    IF /\ Len(t) = 5
       /\ t[1] = "{" /\ t[2] = "ZoneProcess" /\ t[3] = ":" /\ t[5] = "}"
       /\ t[4] \notin {"{", "}", ":", NL}
    THEN RequestZoneProcess(t[4])
    ELSE NoRequest

\* recv_request: read one line of the stream and decode it.
recv_request(buf) == from_slice_request(read_until(buf))

READY_MSG == <<"ready", NL>>

\* The control files with gid_map written before setgroups.
ControlFiles_gid_first == <<"uid_map", "gid_map", "setgroups">>

ControlFiles == <<"uid_map", "setgroups", "gid_map">>

----------------------------------------------------------------------------
(* Initial state: the daemon has bound its socket and its ProcessMap is     *)
(* empty (daemon.rs:75-79); nothing is connected and nothing was cloned.    *)

NoConn ==
    [state |-> "none", kind |-> "none", sent |-> NoRequest, reqBuf |-> <<>>,
     clientOpen |-> FALSE, holders |-> {}, resp |-> NoResponse,
     respBuf |-> <<>>, nForks |-> 0, nMounts |-> 0]

NoAnchor ==
    [pc |-> "none", zone |-> "", written |-> <<>>, server |-> "none",
     connected |-> FALSE, recvOk |-> "pending", ranChildFn |-> FALSE,
     pdeathsig |-> FALSE, bound |-> FALSE, pairBuf |-> <<>>,
     clientHolders |-> {}, serverHolders |-> {}, sigkill |-> FALSE]

DaemonInit ==
    /\ zoneDisk \in [Zones -> {"absent", "broken", "ok"}]
    /\ processes = [z \in Zones |-> NoPid]
    /\ dpc = "accept"
    /\ cur = 0
    /\ curZone = ""
    /\ curPid = NoPid
    /\ result = NoResponse
    /\ regAtAccept = [z \in Zones |-> NoPid]
    /\ conns = [c \in Conns |-> NoConn]
    /\ anchors = [p \in Pids |-> NoAnchor]
    /\ mounts = [z \in Zones |-> 0]
    /\ forks = [z \in Zones |-> 0]

----------------------------------------------------------------------------
(* Clients.                                                                 *)

\* Connections are queued by the listener in the order they are made.
NextConn == CHOOSE c \in Conns :
    conns[c].state = "none" /\ \A d \in 1..(c - 1) : conns[d].state # "none"

\* Bytes a program other than mzr writes to the socket: a line that is not a
\* request, and a request cut short by the client closing the connection.
RawInputs ==
    { [bytes |-> <<"garbage", NL>>, open |-> TRUE],
      [bytes |-> <<"{", "ZoneProcess", ":">>, open |-> FALSE] }

\* connect_to_daemon, then send_request (run_daemon_command, get_zone_process).
client_send_request(z) ==
    /\ \E c \in Conns : conns[c].state = "none"
    /\ conns' = [conns EXCEPT ![NextConn] =
            [@ EXCEPT !.state = "pending", !.kind = "mzr",
                      !.sent = RequestZoneProcess(z),
                      !.reqBuf = send_request(RequestZoneProcess(z)),
                      !.clientOpen = TRUE]]
    /\ UNCHANGED <<mvars, zvars, xvars, rvars, zoneDisk, processes, dpc, cur, curZone, curPid, result,
                   regAtAccept, anchors, mounts, forks>>

\* Another program connects and writes bytes of its own.
client_send_raw(in) ==
    /\ \E c \in Conns : conns[c].state = "none"
    /\ conns' = [conns EXCEPT ![NextConn] =
            [@ EXCEPT !.state = "pending", !.kind = "raw",
                      !.reqBuf = in.bytes, !.clientOpen = in.open]]
    /\ UNCHANGED <<mvars, zvars, xvars, rvars, zoneDisk, processes, dpc, cur, curZone, curPid, result,
                   regAtAccept, anchors, mounts, forks>>

----------------------------------------------------------------------------
(* The daemon: run's accept loop and handle_client.                         *)

\* The process that holds the client's end of an accepted stream.
ClientHolders(c) == IF conns[c].clientOpen THEN {"client"} ELSE {}

\* Zone::load_if_exists without its zone_dir.is_dir() test: load_impl fails
\* to open the info.json of a zone that has no directory.
load_if_exists_unchecked(z) ==
    IF z \notin Zones \/ zoneDisk[z] \in {"absent", "broken"} THEN "Err"
    ELSE "Some"

\* Zone::load_if_exists taking a zone directory without a readable info.json
\* for a zone.
load_if_exists_lenient(z) ==
    IF z \notin Zones \/ zoneDisk[z] = "absent" THEN "None" ELSE "Some"

\* Zone::load_if_exists: None when the zone directory is missing, an error
\* when its info.json cannot be read, the zone otherwise.
load_if_exists(z) ==
    IF z \notin Zones \/ zoneDisk[z] = "absent" THEN "None"
    ELSE IF zoneDisk[z] = "broken" THEN "Err"
    ELSE "Some"

\* A lookup that never finds the entry.
processes_get_miss(z) == NoPid

\* processes.get(&zone_name)
processes_get(z) == IF z \in Zones THEN processes[z] ELSE NoPid

\* run with `handle_client(..)?`: an error leaves the accept loop.
run_after_handle_client_propagate(ok) == IF ok THEN "accept" ELSE "exited"

\* What run does with the value handle_client returns: Ok(()) goes on with
\* the next connection, Err(err) is printed and ignored.
run_after_handle_client(ok) == "accept"

\* An accept loop that takes the next connection while the previous one is
\* still being handled.
accept_incoming_unserialized ==
    /\ \E c \in Conns : conns[c].state = "pending"
    /\ LET c == CHOOSE c \in Conns :
                 /\ conns[c].state = "pending"
                 /\ \A d \in 1..(c - 1) : conns[d].state # "pending"
       IN /\ cur' = c
          /\ conns' = [conns EXCEPT ![c] =
                 [@ EXCEPT !.state = "handling", !.holders = {Daemon}]]
    /\ dpc' = "recv"
    /\ regAtAccept' = processes
    /\ UNCHANGED <<mvars, zvars, xvars, rvars, zoneDisk, processes, curZone, curPid, result, anchors,
                   mounts, forks>>

\* for stream_or_err in listener.incoming(): take the oldest queued connection.
accept_incoming ==
    /\ dpc = "accept"
    /\ \E c \in Conns : conns[c].state = "pending"
    /\ LET c == CHOOSE c \in Conns :
                 /\ conns[c].state = "pending"
                 /\ \A d \in 1..(c - 1) : conns[d].state # "pending"
       IN /\ cur' = c
          /\ conns' = [conns EXCEPT ![c] =
                 [@ EXCEPT !.state = "handling", !.holders = {Daemon}]]
    /\ dpc' = "recv"
    /\ regAtAccept' = processes
    /\ UNCHANGED <<mvars, zvars, xvars, rvars, zoneDisk, processes, curZone, curPid, result, anchors,
                   mounts, forks>>

\* handle_client up to zone.mount(): recv_request, the lookup in the
\* ProcessMap, Zone::load_if_exists and symlink_git_repo.
handle_client_recv ==
    /\ dpc = "recv"
    /\ can_read_until(conns[cur].reqBuf, ClientHolders(cur))
    /\ LET request == recv_request(conns[cur].reqBuf) IN
       IF request.tag = "none"
       THEN /\ result' = UnexpectedError("decode")
            /\ dpc' = "respond"
            /\ UNCHANGED curZone
       ELSE /\ curZone' = request.zone
            /\ IF processes_get(request.zone) # NoPid
               THEN /\ result' = ResponseZoneProcess(processes_get(request.zone))
                    /\ dpc' = "respond"
               ELSE IF load_if_exists(request.zone) = "None"
               THEN /\ result' = ResponseError("Zone does not exist")
                    /\ dpc' = "respond"
               ELSE IF load_if_exists(request.zone) = "Err"
               THEN /\ result' = UnexpectedError("load")
                    /\ dpc' = "respond"
               ELSE \E symlinked \in BOOLEAN :
                    IF symlinked
                    THEN dpc' = "mount" /\ UNCHANGED result
                    ELSE /\ result' = UnexpectedError("symlink")
                         /\ dpc' = "respond"
    /\ UNCHANGED <<mvars, zvars, xvars, rvars, zoneDisk, processes, cur, curPid, regAtAccept, conns,
                   anchors, mounts, forks>>

\* zone.mount()?: the overlay mount in the daemon's namespace.
zone_mount ==
    /\ dpc = "mount"
    /\ \E mounted \in BOOLEAN :
        IF mounted
        THEN /\ mounts' = [mounts EXCEPT ![curZone] = @ + 1]
             /\ conns' = [conns EXCEPT ![cur].nMounts = @ + 1]
             /\ dpc' = "clone"
             /\ UNCHANGED result
        ELSE /\ result' = UnexpectedError("mount")
             /\ dpc' = "respond"
             /\ UNCHANGED <<mounts, conns>>
    /\ UNCHANGED <<mvars, zvars, xvars, rvars, zoneDisk, processes, cur, curZone, curPid, regAtAccept,
                   anchors, forks>>

\* The process id the next clone returns.
NextPid == CHOOSE p \in Pids :
    anchors[p].pc = "none" /\ \A q \in 1..(p - 1) : anchors[q].pc # "none"

\* fork_zone_process_clone with a child that holds client_stream only, the
\* daemon's server_stream being closed in it.
fork_zone_process_clone_closes_server ==
    /\ dpc = "clone"
    /\ \E p \in Pids : anchors[p].pc = "none"
    /\ anchors' = [anchors EXCEPT ![NextPid] =
           [@ EXCEPT !.pc = "recv_ready", !.zone = curZone, !.server = "open",
                     !.clientHolders = {Daemon, NextPid},
                     !.serverHolders = {Daemon}]]
    /\ conns' = [conns EXCEPT ![cur] =
           [@ EXCEPT !.holders = @ \cup {NextPid}, !.nForks = @ + 1]]
    /\ forks' = [forks EXCEPT ![curZone] = @ + 1]
    /\ curPid' = NextPid
    /\ dpc' = "map"
    /\ UNCHANGED <<mvars, zvars, xvars, rvars, zoneDisk, processes, cur, curZone, result,
                   regAtAccept, mounts>>

\* fork_zone_process_clone with the pid entered in the ProcessMap as soon as
\* the clone has returned it.
fork_zone_process_clone_registers ==
    /\ dpc = "clone"
    /\ \E p \in Pids : anchors[p].pc = "none"
    /\ anchors' = [anchors EXCEPT ![NextPid] =
           [@ EXCEPT !.pc = "recv_ready", !.zone = curZone, !.server = "open",
                     !.clientHolders = {Daemon, NextPid},
                     !.serverHolders = {Daemon, NextPid}]]
    /\ conns' = [conns EXCEPT ![cur] =
           [@ EXCEPT !.holders = @ \cup {NextPid}, !.nForks = @ + 1]]
    /\ forks' = [forks EXCEPT ![curZone] = @ + 1]
    /\ curPid' = NextPid
    /\ processes' = [processes EXCEPT ![curZone] = NextPid]
    /\ dpc' = "map"
    /\ UNCHANGED <<mvars, zvars, xvars, rvars, zoneDisk, cur, curZone, result, regAtAccept, mounts>>

\* fork_zone_process up to the clone: UnixStream::pair, then
\* with_unshared_user_and_mount's init_ipc and clone.  The child gets a copy
\* of every descriptor the daemon has open: both ends of the pair and the
\* stream of the connection being handled.
fork_zone_process_clone ==
    /\ dpc = "clone"
    /\ \E cloned \in BOOLEAN :
        IF cloned /\ (\E p \in Pids : anchors[p].pc = "none")
        THEN /\ anchors' = [anchors EXCEPT ![NextPid] =
                    [@ EXCEPT !.pc = "recv_ready", !.zone = curZone,
                              !.server = "open",
                              !.clientHolders = {Daemon, NextPid},
                              !.serverHolders = {Daemon, NextPid}]]
             /\ conns' = [conns EXCEPT ![cur] =
                    [@ EXCEPT !.holders = @ \cup {NextPid}, !.nForks = @ + 1]]
             /\ forks' = [forks EXCEPT ![curZone] = @ + 1]
             /\ curPid' = NextPid
             /\ dpc' = "map"
             /\ UNCHANGED result
        ELSE /\ result' = UnexpectedError("clone")
             /\ dpc' = "respond"
             /\ UNCHANGED <<anchors, conns, forks, curPid>>
    /\ UNCHANGED <<mvars, zvars, xvars, rvars, zoneDisk, processes, cur, curZone, regAtAccept, mounts>>

\* The daemon leaves fork_zone_process: server_stream and client_stream go
\* out of scope and the daemon's descriptors of the pair are closed.
DropPair(a) ==
    [a EXCEPT !.clientHolders = @ \ {Daemon}, !.serverHolders = @ \ {Daemon}]

\* A mapping that writes uid_map only and then reports success.
map_user_to_root_uid_only ==
    /\ dpc = "map"
    /\ anchors' = [anchors EXCEPT ![curPid].written =
           Append(@, ControlFiles[Len(@) + 1])]
    /\ dpc' = "send_ready"
    /\ UNCHANGED <<mvars, zvars, xvars, rvars, zoneDisk, processes, cur, curZone, curPid, result,
                   regAtAccept, conns, mounts, forks>>

\* A mapping that gives up at the first write that fails and reports
\* success.
map_user_to_root_ignores_errors ==
    /\ dpc = "map"
    /\ \E wrote \in BOOLEAN :
        IF wrote
        THEN /\ anchors' = [anchors EXCEPT ![curPid].written =
                    Append(@, ControlFiles[Len(@) + 1])]
             /\ dpc' = IF Len(anchors[curPid].written) + 1 = Len(ControlFiles)
                       THEN "send_ready" ELSE "map"
        ELSE /\ dpc' = "send_ready"
             /\ UNCHANGED anchors
    /\ UNCHANGED <<mvars, zvars, xvars, rvars, zoneDisk, processes, cur, curZone, curPid,
                   result, regAtAccept, conns, mounts, forks>>

\* map_user_to_root: the next of the three writes to /proc/<child_pid>/.
\* A failed open or write returns the error through with_unshared_user_and_mount
\* (parent_server is dropped unsent) and through fork_zone_process.
map_user_to_root ==
    /\ dpc = "map"
    /\ \E wrote \in BOOLEAN :
        IF wrote
        THEN /\ anchors' = [anchors EXCEPT ![curPid].written =
                    Append(@, ControlFiles[Len(@) + 1])]
             /\ dpc' = IF Len(anchors[curPid].written) + 1 = Len(ControlFiles)
                       THEN "send_ready" ELSE "map"
             /\ UNCHANGED result
        ELSE /\ anchors' = [anchors EXCEPT ![curPid] =
                    DropPair([@ EXCEPT !.server = "dropped"])]
             /\ result' = UnexpectedError("map")
             /\ dpc' = "respond"
    /\ UNCHANGED <<mvars, zvars, xvars, rvars, zoneDisk, processes, cur, curZone, curPid, regAtAccept,
                   conns, mounts, forks>>

\* send_ready: parent_server.accept() returns once the child has connected
\* and sent its sender; then tx1.send(Ready).
send_ready ==
    /\ dpc = "send_ready"
    /\ anchors[curPid].connected
    /\ anchors' = [anchors EXCEPT ![curPid].server = "sent"]
    /\ dpc' = "read_ready"
    /\ UNCHANGED <<mvars, zvars, xvars, rvars, zoneDisk, processes, cur, curZone, curPid, result,
                   regAtAccept, conns, mounts, forks>>

\* fork_zone_process without the read of the readiness message.
fork_zone_process_read_unchecked ==
    /\ dpc = "read_ready"
    /\ processes' = [processes EXCEPT ![curZone] = curPid]
    /\ result' = ResponseZoneProcess(curPid)
    /\ anchors' = [anchors EXCEPT ![curPid] = DropPair(@)]
    /\ dpc' = "respond"
    /\ UNCHANGED <<mvars, zvars, xvars, rvars, zoneDisk, cur, curZone, curPid, regAtAccept, conns,
                   mounts, forks>>

\* The end of fork_zone_process and processes.insert in handle_client:
\* reader.read_until(b'\n') on server_stream, the comparison with READY_MSG,
\* and on success the insertion of the pid.
fork_zone_process_read ==
    /\ dpc = "read_ready"
    /\ can_read_until(anchors[curPid].pairBuf, anchors[curPid].clientHolders)
    /\ IF read_until(anchors[curPid].pairBuf) = READY_MSG
       THEN /\ processes' = [processes EXCEPT ![curZone] = curPid]
            /\ result' = ResponseZoneProcess(curPid)
       ELSE /\ result' = UnexpectedError("handshake")
            /\ UNCHANGED processes
    /\ anchors' = [anchors EXCEPT ![curPid] = DropPair(@)]
    /\ dpc' = "respond"
    /\ UNCHANGED <<mvars, zvars, xvars, rvars, zoneDisk, cur, curZone, curPid, regAtAccept, conns,
                   mounts, forks>>

\* send_response, the end of handle_client (stream is dropped) and the arm
\* of run's match.  Writing to a stream the client has closed fails.
handle_client_respond ==
    /\ dpc = "respond"
    /\ conns' = [conns EXCEPT ![cur] =
           [@ EXCEPT !.resp = result,
                     !.respBuf = IF conns[cur].clientOpen
                                 THEN send_response(result) ELSE <<>>,
                     !.holders = @ \ {Daemon},
                     !.state = "closed"]]
    /\ dpc' = run_after_handle_client(conns[cur].clientOpen)
    /\ cur' = 0
    /\ curZone' = ""
    /\ curPid' = NoPid
    /\ result' = NoResponse
    /\ UNCHANGED <<mvars, zvars, xvars, rvars, zoneDisk, processes, regAtAccept, anchors, mounts, forks>>

----------------------------------------------------------------------------
(* The cloned process: the closure with_unshared_user_and_mount clones      *)
(* (namespaces.rs:60-75) around the child_fn of fork_zone_process           *)
(* (daemon.rs:214-238).                                                     *)

\* recv_ready(&parent_name).and(child_fn()): the argument of `and` is
\* evaluated once recv_ready has returned, whatever it returned.
after_recv_ready(ok) == "child_fn"

\* The process exits in state a: all its descriptors are closed.
Exited(p, a) ==
    /\ anchors' = [anchors EXCEPT ![p] =
           [a EXCEPT !.pc = "exited", !.clientHolders = @ \ {p},
                     !.serverHolders = @ \ {p}]]
    /\ conns' = [c \in Conns |-> [conns[c] EXCEPT !.holders = @ \ {p}]]

\* recv_ready up to tx0.send(tx1): connecting fails when the one-shot server
\* has been dropped.
recv_ready_connect(p) ==
    /\ anchors[p].pc = "recv_ready"
    /\ IF anchors[p].server = "dropped"
       THEN anchors' = [anchors EXCEPT ![p] =
                [@ EXCEPT !.recvOk = "err", !.pc = after_recv_ready(FALSE)]]
       ELSE anchors' = [anchors EXCEPT ![p] =
                [@ EXCEPT !.connected = TRUE, !.pc = "wait_ready"]]
    /\ UNCHANGED <<mvars, zvars, xvars, rvars, zoneDisk, processes, dpc, cur, curZone, curPid, result,
                   regAtAccept, conns, mounts, forks>>

\* rx1.recv(): returns Ready once the parent has sent it, and an error when
\* the parent dropped the server without sending.
recv_ready_recv(p) ==
    /\ anchors[p].pc = "wait_ready"
    /\ anchors[p].server \in {"sent", "dropped"}
    /\ IF anchors[p].server = "sent"
       THEN anchors' = [anchors EXCEPT ![p] =
                [@ EXCEPT !.recvOk = "ok", !.pc = after_recv_ready(TRUE)]]
       ELSE anchors' = [anchors EXCEPT ![p] =
                [@ EXCEPT !.recvOk = "err", !.pc = after_recv_ready(FALSE)]]
    /\ UNCHANGED <<mvars, zvars, xvars, rvars, zoneDisk, processes, dpc, cur, curZone, curPid, result,
                   regAtAccept, conns, mounts, forks>>

\* child_fn begins: prctl(PR_SET_PDEATHSIG, SIGKILL).
child_fn_prctl(p) ==
    /\ anchors[p].pc = "child_fn"
    /\ \E set \in BOOLEAN :
        IF set
        THEN /\ anchors' = [anchors EXCEPT ![p] =
                    [@ EXCEPT !.ranChildFn = TRUE, !.pdeathsig = TRUE,
                              !.pc = "bind"]]
             /\ UNCHANGED conns
        ELSE Exited(p, [anchors[p] EXCEPT !.ranChildFn = TRUE])
    /\ UNCHANGED <<mvars, zvars, xvars, rvars, zoneDisk, processes, dpc, cur, curZone, curPid, result,
                   regAtAccept, mounts, forks>>

\* zone.bind_to(work_dir)?: the bind mount over the user's working directory.
child_fn_bind(p) ==
    /\ anchors[p].pc = "bind"
    /\ \E mounted \in BOOLEAN :
        IF mounted
        THEN /\ anchors' = [anchors EXCEPT ![p] =
                    [@ EXCEPT !.bound = TRUE, !.pc = "write_ready"]]
             /\ UNCHANGED conns
        ELSE Exited(p, anchors[p])
    /\ UNCHANGED <<mvars, zvars, xvars, rvars, zoneDisk, processes, dpc, cur, curZone, curPid, result,
                   regAtAccept, mounts, forks>>

\* client_stream.write_all(READY_MSG)?, after which the process blocks in
\* client_stream.read_to_end.  The write fails when nothing holds
\* server_stream any more.
child_fn_write_ready(p) ==
    /\ anchors[p].pc = "write_ready"
    /\ IF anchors[p].serverHolders # {}
       THEN /\ anchors' = [anchors EXCEPT ![p] =
                   [@ EXCEPT !.pairBuf = @ \o READY_MSG, !.pc = "blocked"]]
            /\ UNCHANGED conns
       ELSE Exited(p, anchors[p])
    /\ UNCHANGED <<mvars, zvars, xvars, rvars, zoneDisk, processes, dpc, cur, curZone, curPid, result,
                   regAtAccept, mounts, forks>>

----------------------------------------------------------------------------
(* The client's get_zone_process (daemon.rs:303-328).                       *)

Callers == {1}

\* first, second: the connections of the call; ret: what the call returns.
IdleCaller ==
    [pc |-> "idle", zone |-> "", first |-> 0, second |-> 0, ret |-> NoResponse]

CallIdle == callers = [k \in Callers |-> IdleCaller]

\* serde_json::from_reader::<Response>: the value, or an error (tag "none")
\* when the stream does not hold one.
from_reader_response(buf) ==
    IF Len(buf) = 5 /\ buf[1] = "{" /\ buf[3] = ":" /\ buf[5] = "}"
    THEN IF buf[2] = "ZoneProcess" /\ \E p \in Pids : ToString(p) = buf[4]
         THEN ResponseZoneProcess(CHOOSE p \in Pids : ToString(p) = buf[4])
         ELSE IF buf[2] = "Error" THEN ResponseError(buf[4])
         ELSE NoResponse
    ELSE NoResponse

\* from_reader reads the stream to its end: the read returns once no process
\* holds the daemon's end of the connection.
can_read_to_end(c) == conns[c].state = "closed" /\ conns[c].holders = {}

\* get_zone_process: connect_to_daemon and send_request on the first stream.
get_zone_process_send(k, z) ==
    /\ callers[k].pc = "idle"
    /\ \E c \in Conns : conns[c].state = "none"
    /\ conns' = [conns EXCEPT ![NextConn] =
            [@ EXCEPT !.state = "pending", !.kind = "mzr",
                      !.sent = RequestZoneProcess(z),
                      !.reqBuf = send_request(RequestZoneProcess(z)),
                      !.clientOpen = TRUE]]
    /\ callers' = [callers EXCEPT ![k] =
            [@ EXCEPT !.pc = "sent", !.zone = z, !.first = NextConn]]
    /\ UNCHANGED <<mvars, zvars, rvars, enterers, snapFs, snappers, zoneDisk, processes,
                   dpc, cur, curZone, curPid, result, regAtAccept, anchors,
                   mounts, forks>>

\* run_daemon_command: connect_to_daemon and send_request on a second stream.
run_daemon_command_send(k) ==
    /\ callers[k].pc = "sent"
    /\ \E c \in Conns : conns[c].state = "none"
    /\ conns' = [conns EXCEPT ![NextConn] =
            [@ EXCEPT !.state = "pending", !.kind = "mzr",
                      !.sent = RequestZoneProcess(callers[k].zone),
                      !.reqBuf = send_request(RequestZoneProcess(callers[k].zone)),
                      !.clientOpen = TRUE]]
    /\ callers' = [callers EXCEPT ![k] =
            [@ EXCEPT !.pc = "recv", !.second = NextConn]]
    /\ UNCHANGED <<mvars, zvars, rvars, enterers, snapFs, snappers, zoneDisk, processes,
                   dpc, cur, curZone, curPid, result, regAtAccept, anchors,
                   mounts, forks>>

\* A call that reads its response from the first stream.
run_daemon_command_recv_first(k) ==
    /\ callers[k].pc = "recv"
    /\ can_read_to_end(callers[k].first)
    /\ callers' = [callers EXCEPT ![k] =
            [@ EXCEPT !.pc = "done",
                      !.ret = from_reader_response(conns[callers[k].first].respBuf)]]
    /\ conns' = [c \in Conns |->
            IF c \in {callers[k].first, callers[k].second}
            THEN [conns[c] EXCEPT !.clientOpen = FALSE] ELSE conns[c]]
    /\ UNCHANGED <<mvars, zvars, rvars, enterers, snapFs, snappers, zoneDisk, processes,
                   dpc, cur, curZone, curPid, result, regAtAccept, anchors,
                   mounts, forks>>

\* run_daemon_command: recv_response on the second stream, and the match of
\* get_zone_process on it; both streams are dropped when the call returns.
run_daemon_command_recv(k) ==
    /\ callers[k].pc = "recv"
    /\ can_read_to_end(callers[k].second)
    /\ callers' = [callers EXCEPT ![k] =
            [@ EXCEPT !.pc = "done",
                      !.ret = from_reader_response(conns[callers[k].second].respBuf)]]
    /\ conns' = [c \in Conns |->
            IF c \in {callers[k].first, callers[k].second}
            THEN [conns[c] EXCEPT !.clientOpen = FALSE] ELSE conns[c]]
    /\ UNCHANGED <<mvars, zvars, rvars, enterers, snapFs, snappers, zoneDisk, processes,
                   dpc, cur, curZone, curPid, result, regAtAccept, anchors,
                   mounts, forks>>

CallStep(k) ==
    \/ \E z \in Zones : get_zone_process_send(k, z)
    \/ run_daemon_command_send(k)
    \/ run_daemon_command_recv(k)

----------------------------------------------------------------------------
(* The end of the daemon and of its zone processes.                         *)

\* A process that has been cloned and has not exited.
Alive(p) == anchors[p].pc \notin {"none", "exited"}

\* The daemon process ends (it is killed, or listener.incoming() yields an
\* error): its descriptors are closed, among them the one-shot server of a
\* handshake under way, and the kernel sends SIGKILL to every child that
\* has set PR_SET_PDEATHSIG by then.
daemon_exit ==
    /\ dpc # "dead"
    /\ dpc' = "dead"
    /\ anchors' = [p \in Pids |->
           IF Alive(p)
           THEN [DropPair(anchors[p]) EXCEPT
                    !.server = IF @ = "open" THEN "dropped" ELSE @,
                    !.sigkill = anchors[p].pdeathsig]
           ELSE anchors[p]]
    /\ conns' = [c \in Conns |-> [conns[c] EXCEPT !.holders = @ \ {Daemon}]]
    /\ UNCHANGED <<mvars, zvars, xvars, rvars, zoneDisk, processes, cur, curZone, curPid,
                   result, regAtAccept, mounts, forks>>

\* child_fn between prctl and the blocking read: the SIGKILL of the parent's
\* death ends the process.
child_fn_killed(p) ==
    /\ anchors[p].pc \in {"bind", "write_ready"}
    /\ anchors[p].sigkill
    /\ Exited(p, anchors[p])
    /\ UNCHANGED <<mvars, zvars, xvars, rvars, zoneDisk, processes, dpc, cur, curZone, curPid,
                   result, regAtAccept, mounts, forks>>

\* client_stream.read_to_end(&mut data) returns at end of file, that is
\* when no process holds server_stream.
read_to_end_returns(a) == a.serverHolders = {}

\* daemon.rs:229-237: the process leaves read_to_end when the read returns
\* (it prints and exits) or when the SIGKILL of the parent's death ends it.
child_fn_read_to_end(p) ==
    /\ anchors[p].pc = "blocked"
    /\ read_to_end_returns(anchors[p]) \/ anchors[p].sigkill
    /\ Exited(p, anchors[p])
    /\ UNCHANGED <<mvars, zvars, xvars, rvars, zoneDisk, processes, dpc, cur, curZone, curPid,
                   result, regAtAccept, mounts, forks>>

AnchorEnd(p) ==
    \/ child_fn_killed(p)
    \/ child_fn_read_to_end(p)

----------------------------------------------------------------------------
(* The merge engine (merge.rs).  A tree maps every path to what lstat finds *)
(* there; the change layer also records the entries WalkDir fails to walk.  *)

Paths == {"a.txt", "b.txt"}

Meta(t, l, m, p) ==
    [st |-> "ok", type |-> t, len |-> l, mtime |-> m, perm |-> p]
\* ErrorKind::NotFound
NotFound == [st |-> "absent", type |-> "none", len |-> 0, mtime |-> 0, perm |-> 0]
\* Any other error of symlink_metadata or of DirEntry::metadata.
LookupError == [st |-> "err", type |-> "none", len |-> 0, mtime |-> 0, perm |-> 0]
\* An Err item of the WalkDir iterator.
WalkError == [st |-> "walk_err", type |-> "none", len |-> 0, mtime |-> 0, perm |-> 0]

\* The file as the snapshot took it, and the ways a file can differ from it.
MBase == Meta("file", 10, 0, 644)
MLen == Meta("file", 11, 0, 644)
MTime == Meta("file", 10, 1, 644)
MPerm == Meta("file", 10, 0, 755)
MLink == Meta("symlink", 10, 0, 644)
MDir == Meta("dir", 10, 0, 644)
\* The file as the zone has written it.
MZone == Meta("file", 12, 2, 644)

\* The inputs of the merge: the first path takes every case, the second a
\* few, so that a walk has an entry before and after each case.
ChangesInputs ==
    { ch \in [Paths -> {NotFound, WalkError, LookupError, MZone, MBase, MLink, MDir}] :
        ch["b.txt"] \in {NotFound, WalkError, MZone} }
TargetInputs ==
    { tg \in [Paths -> {NotFound, LookupError, MBase, MLen, MTime, MPerm, MLink, MDir}] :
        tg["b.txt"] \in {NotFound, MBase, MTime} }
SnapshotInputs ==
    { sn \in [Paths -> {NotFound, LookupError, MBase, MDir}] :
        sn["b.txt"] \in {NotFound, MBase} }
WalkOrders == {<<"a.txt", "b.txt">>, <<"b.txt", "a.txt">>}
Modes == {"AlwaysAsk", "AutoApplyUpdates", "AutoApplyConflicts"}

NoPlan == [updates |-> <<>>, conflicts |-> <<>>, skips |-> <<>>]

\* get_metadata mapping every error to Ok(None).
get_metadata_swallows(e) == IF e.st = "ok" THEN "Some" ELSE "None"

\* get_metadata: Ok(None) for NotFound, Err for any other error, Ok(Some).
get_metadata(e) ==
    IF e.st = "ok" THEN "Some"
    ELSE IF e.st = "absent" THEN "None"
    ELSE "Err"

\* The mtime of a Metadata whose modified() returns Err.
NoTime == -1

\* Metadata::modified(): Ok(time) or Err.
modified(x) == IF x.mtime = NoTime THEN "Err" ELSE "Ok"

\* metadata_matches comparing the length only.
metadata_matches_len_only(x, y) == x.len = y.len

\* metadata_matches: length, modification time, permissions, file type.
metadata_matches(x, y) ==
    IF x.len # y.len THEN FALSE
    ELSE IF ~(modified(x) = "Ok" /\ modified(y) = "Ok") THEN FALSE
    ELSE IF x.mtime # y.mtime THEN FALSE
    ELSE IF x.perm # y.perm THEN FALSE
    ELSE /\ (x.type = "dir") = (y.type = "dir")
         /\ (x.type = "file") = (y.type = "file")
         /\ (x.type = "symlink") = (y.type = "symlink")

\* What the walk makes of one entry.
Update(p, src, tgt) ==
    [kind |-> "update", rel_path |-> p, reason |-> "",
     source_metadata |-> src, target_metadata |-> tgt]
Conflict(p, why, src, tgt) ==
    [kind |-> "conflict", rel_path |-> p, reason |-> why,
     source_metadata |-> src, target_metadata |-> tgt]
Skip(p, why) ==
    [kind |-> "skip", rel_path |-> p, reason |-> why,
     source_metadata |-> NotFound, target_metadata |-> NotFound]
Ignored(p) ==
    [kind |-> "ignored", rel_path |-> p, reason |-> "",
     source_metadata |-> NotFound, target_metadata |-> NotFound]

\* The snapshot lookup with a path that is new in the zone taken for an update.
lookup_snapshot_new_is_update(p, src, tgt, sn) ==
    IF get_metadata(sn[p]) = "Err" THEN Skip(p, "snapshot metadata")
    ELSE IF get_metadata(sn[p]) = "None" THEN Update(p, src, tgt)
    ELSE IF metadata_matches(tgt, sn[p]) THEN Update(p, src, tgt)
    ELSE Conflict(p, "ModifiedInTarget", src, tgt)

\* merge.rs:186-214, the path exists in the target: look it up in the snapshot.
lookup_snapshot(p, src, tgt, sn) ==
    IF get_metadata(sn[p]) = "Err" THEN Skip(p, "snapshot metadata")
    ELSE IF get_metadata(sn[p]) = "None" THEN Conflict(p, "NotInSnapshot", src, tgt)
    ELSE IF metadata_matches(tgt, sn[p]) THEN Update(p, src, tgt)
    ELSE Conflict(p, "ModifiedInTarget", src, tgt)

\* The target lookup going on to the snapshot whatever it found.
lookup_target_always_compares(p, src, tg, sn) ==
    IF get_metadata(tg[p]) = "Err" THEN Skip(p, "target metadata")
    ELSE lookup_snapshot(p, src, tg[p], sn)

\* merge.rs:177-186: look the path up in the target tree.
lookup_target(p, src, tg, sn) ==
    IF get_metadata(tg[p]) = "Err" THEN Skip(p, "target metadata")
    ELSE IF get_metadata(tg[p]) = "None" THEN Update(p, src, NotFound)
    ELSE lookup_snapshot(p, src, tg[p], sn)

\* The loop body without the is_dir test.
visit_with_dirs(p, ch, tg, sn) ==
    IF ch[p].st = "walk_err" THEN Skip(p, "walk")
    ELSE IF ch[p].st = "err" THEN Skip(p, "source metadata")
    ELSE lookup_target(p, ch[p], tg, sn)

\* merge.rs:166-227, the body of the loop for one item of the walk; the
\* error of a walk names the entry it is about.
visit(p, ch, tg, sn) ==
    IF ch[p].st = "walk_err" THEN Skip(p, "walk")
    ELSE IF ch[p].st = "err" THEN Skip(p, "source metadata")
    ELSE IF ch[p].type = "dir" THEN Ignored(p)
    ELSE lookup_target(p, ch[p], tg, sn)

\* WalkDir::new(&source_dir): the entries of the change layer, in directory
\* order (the root directory it yields first is a directory and is ignored).
WalkDir(ch, order) == SelectSeq(order, LAMBDA p : ch[p].st # "absent")

\* The pushes onto updates, conflicts and skips.
push(acc, item) ==
    IF item.kind = "update" THEN [acc EXCEPT !.updates = Append(@, item)]
    ELSE IF item.kind = "conflict" THEN [acc EXCEPT !.conflicts = Append(@, item)]
    ELSE IF item.kind = "skip" THEN [acc EXCEPT !.skips = Append(@, item)]
    ELSE acc

RECURSIVE walk(_, _, _, _, _)
\* The for loop over the walk.
walk(entries, ch, tg, sn, acc) ==
    IF entries = <<>> THEN acc
    ELSE walk(Tail(entries), ch, tg, sn,
              push(acc, visit(Head(entries), ch, tg, sn)))

\* plan_merging_zone_changes(zone, target_dir)
plan_merging_zone_changes(ch, tg, sn, order) ==
    walk(WalkDir(ch, order), ch, tg, sn, NoPlan)

\* copy_file: cp --archive --no-dereference source target.  The copy has the
\* attributes of the source; cp copies into a target that is a directory.
copy_file(src, tgt) ==
    IF tgt.st = "ok" /\ tgt.type = "dir" THEN tgt ELSE src

\* The paths of a list of a plan.
PathsOf(items) == {items[i].rel_path : i \in 1..Len(items)}

MergeInit ==
    /\ changes \in ChangesInputs
    /\ target \in TargetInputs
    /\ snapshot \in SnapshotInputs
    /\ walkOrder \in WalkOrders
    /\ mpc = "start"
    /\ mode = "none"
    /\ plan = NoPlan
    /\ plan2 = NoPlan
    /\ reported = <<>>

\* No merge is under way.
MergeIdle ==
    /\ changes = [p \in Paths |-> NotFound]
    /\ target = [p \in Paths |-> NotFound]
    /\ snapshot = [p \in Paths |-> NotFound]
    /\ walkOrder = <<>>
    /\ mpc = "idle"
    /\ mode = "none"
    /\ plan = NoPlan
    /\ plan2 = NoPlan
    /\ reported = <<>>

\* A caller computes the plan.
plan_step ==
    /\ mpc = "start"
    /\ plan' = plan_merging_zone_changes(changes, target, snapshot, walkOrder)
    /\ mpc' = "planned"
    /\ UNCHANGED <<dvars, zvars, xvars, rvars, changes, target, snapshot, walkOrder, mode,
                   plan2, reported>>

\* Update::apply for every update of the plan.
apply_updates ==
    /\ mpc = "planned"
    /\ target' = [p \in Paths |->
                    IF p \in PathsOf(plan.updates)
                    THEN copy_file(changes[p], target[p]) ELSE target[p]]
    /\ mpc' = "applied"
    /\ UNCHANGED <<dvars, zvars, xvars, rvars, changes, snapshot, walkOrder, mode, plan,
                   plan2, reported>>

\* The classification is run again, against the same snapshot.
replan ==
    /\ mpc = "applied"
    /\ plan2' = plan_merging_zone_changes(changes, target, snapshot, walkOrder)
    /\ mpc' = "replanned"
    /\ UNCHANGED <<dvars, zvars, xvars, rvars, changes, target, snapshot, walkOrder, mode,
                   plan, reported>>

\* interactive_merge(zone, target_dir, mode): the plan is made and its
\* skips are printed; the code that applied updates and conflicts is
\* commented out (merge.rs:35-80).
interactive_merge(md) ==
    /\ mpc = "start"
    /\ plan' = plan_merging_zone_changes(changes, target, snapshot, walkOrder)
    /\ reported' = [i \in 1..Len(plan'.skips) |->
                        [kind |-> "skip", rel_path |-> plan'.skips[i].rel_path]]
    /\ mode' = md
    /\ mpc' = "merged"
    /\ UNCHANGED <<dvars, zvars, xvars, rvars, changes, target, snapshot, walkOrder, plan2>>

MergeStep ==
    \/ plan_step
    \/ apply_updates
    \/ replan
    \/ \E md \in Modes : interactive_merge(md)

----------------------------------------------------------------------------
(* Zone creation (zone.rs).  Several mzr commands may create zones at the   *)
(* same time; every filesystem call of create_impl is a step of its own.    *)

SnapNames == {"s1", "s2"}
Creators == {1, 2}

\* What is on disk under a zone's directory.
AbsentZone ==
    [dir |-> FALSE, changes |-> FALSE, work |-> FALSE, mount |-> FALSE,
     info |-> "none"]
CompleteZone(s) ==
    [dir |-> TRUE, changes |-> TRUE, work |-> TRUE, mount |-> TRUE, info |-> s]

\* existed: the zone directory was there when Zone::create was called.
IdleCreator ==
    [pc |-> "idle", zone |-> "", snap |-> "", result |-> "none",
     existed |-> FALSE]

CreateInit ==
    /\ snapDirs \in SUBSET SnapNames
    /\ zoneFs \in [Zones -> {AbsentZone, CompleteZone("s1")}]
    /\ creators = [c \in Creators |-> IdleCreator]

\* No zone is being created.
CreateIdle ==
    /\ snapDirs = {}
    /\ zoneFs = [z \in Zones |-> AbsentZone]
    /\ creators = [c \in Creators |-> IdleCreator]

\* The creator returns from create_impl.
Return(c, r) ==
    creators' = [creators EXCEPT ![c].pc = "done", ![c].result = r]
Goto(c, l) == creators' = [creators EXCEPT ![c].pc = l]

\* Zone::create(mzr_dir, zone_name, snap_name)
Zone_create(c, z, s) ==
    /\ creators[c].pc = "idle"
    /\ creators' = [creators EXCEPT ![c] =
                       [pc |-> "check_snap", zone |-> z, snap |-> s,
                        result |-> "none", existed |-> zoneFs[z].dir]]
    /\ UNCHANGED <<dvars, mvars, xvars, rvars, snapDirs, zoneFs>>

\* create_impl making the zone directory before it looks for the snapshot.
create_impl_check_snap_late(c) ==
    /\ creators[c].pc = "check_snap"
    /\ zoneFs' = [zoneFs EXCEPT ![creators[c].zone].dir = TRUE]
    /\ IF creators[c].snap \in snapDirs
       THEN Goto(c, "changes")
       ELSE Return(c, "err_snapshot")
    /\ UNCHANGED <<dvars, mvars, xvars, rvars, snapDirs>>

\* zone.rs:79-86: if !snap_dir.is_dir() { bail!(...) }
create_impl_check_snap(c) ==
    /\ creators[c].pc = "check_snap"
    /\ IF creators[c].snap \in snapDirs
       THEN Goto(c, "parent")
       ELSE Return(c, "err_snapshot")
    /\ UNCHANGED <<dvars, mvars, xvars, rvars, snapDirs, zoneFs>>

\* zone.rs:87-93: create_dir_all(zone_parent)
create_impl_parent(c) ==
    /\ creators[c].pc = "parent"
    /\ \E ok \in BOOLEAN :
         IF ok THEN Goto(c, "create_dir") ELSE Return(c, "err_parent")
    /\ UNCHANGED <<dvars, mvars, xvars, rvars, snapDirs, zoneFs>>

\* create_impl with create_dir_all(zone_dir): an existing directory is taken
\* for the one just made.
create_impl_create_dir_all(c) ==
    /\ creators[c].pc = "create_dir"
    /\ \E ok \in BOOLEAN :
         IF ok
         THEN /\ zoneFs' = [zoneFs EXCEPT ![creators[c].zone].dir = TRUE]
              /\ Goto(c, "changes")
         ELSE /\ Return(c, "err_unexpected")
              /\ UNCHANGED zoneFs
    /\ UNCHANGED <<dvars, mvars, xvars, rvars, snapDirs>>

\* zone.rs:94-108: create_dir(zone_dir)
create_impl_create_dir(c) ==
    /\ creators[c].pc = "create_dir"
    /\ IF zoneFs[creators[c].zone].dir
       THEN /\ Return(c, "err_exists")
            /\ UNCHANGED zoneFs
       ELSE \E ok \in BOOLEAN :
              IF ok
              THEN /\ zoneFs' = [zoneFs EXCEPT ![creators[c].zone].dir = TRUE]
                   /\ Goto(c, "changes")
              ELSE /\ Return(c, "err_unexpected")
                   /\ UNCHANGED zoneFs
    /\ UNCHANGED <<dvars, mvars, xvars, rvars, snapDirs>>

\* zone.rs:113-116: create_dir_all(ovfs_changes_dir)
create_impl_changes(c) ==
    /\ creators[c].pc = "changes"
    /\ \E ok \in BOOLEAN :
         IF ok
         THEN /\ zoneFs' = [zoneFs EXCEPT ![creators[c].zone].changes = TRUE]
              /\ Goto(c, "work")
         ELSE /\ Return(c, "err_changes")
              /\ UNCHANGED zoneFs
    /\ UNCHANGED <<dvars, mvars, xvars, rvars, snapDirs>>

\* zone.rs:117-120: create_dir_all(ovfs_work_dir)
create_impl_work(c) ==
    /\ creators[c].pc = "work"
    /\ \E ok \in BOOLEAN :
         IF ok
         THEN /\ zoneFs' = [zoneFs EXCEPT ![creators[c].zone].work = TRUE]
              /\ Goto(c, "mount")
         ELSE /\ Return(c, "err_work")
              /\ UNCHANGED zoneFs
    /\ UNCHANGED <<dvars, mvars, xvars, rvars, snapDirs>>

\* zone.rs:121-124: create_dir_all(ovfs_mount_dir)
create_impl_mount(c) ==
    /\ creators[c].pc = "mount"
    /\ \E ok \in BOOLEAN :
         IF ok
         THEN /\ zoneFs' = [zoneFs EXCEPT ![creators[c].zone].mount = TRUE]
              /\ Goto(c, "write_info")
         ELSE /\ Return(c, "err_mount")
              /\ UNCHANGED zoneFs
    /\ UNCHANGED <<dvars, mvars, xvars, rvars, snapDirs>>

\* zone.rs:125-129, json.rs:26-39: File::create, then the record is written
\* to the file; either may fail, the second leaving a file that does not
\* hold a record.
create_impl_write_info(c) ==
    /\ creators[c].pc = "write_info"
    /\ \E outcome \in {"ok", "create_failed", "write_failed"} :
         IF outcome = "ok"
         THEN /\ zoneFs' = [zoneFs EXCEPT ![creators[c].zone].info = creators[c].snap]
              /\ Return(c, "ok")
         ELSE IF outcome = "write_failed"
         THEN /\ zoneFs' = [zoneFs EXCEPT ![creators[c].zone].info = "partial"]
              /\ Return(c, "err_info")
         ELSE /\ Return(c, "err_info")
              /\ UNCHANGED zoneFs
    /\ UNCHANGED <<dvars, mvars, xvars, rvars, snapDirs>>

CreateStep(c) ==
    \/ \E z \in Zones, s \in SnapNames : Zone_create(c, z, s)
    \/ create_impl_check_snap(c)
    \/ create_impl_parent(c)
    \/ create_impl_create_dir(c)
    \/ create_impl_changes(c)
    \/ create_impl_work(c)
    \/ create_impl_mount(c)
    \/ create_impl_write_info(c)

----------------------------------------------------------------------------
(* Entering the namespaces of a process (namespaces.rs:199-233).  Every mzr *)
(* command that enters a zone or the daemon's space is a process of its own. *)

Enterers == {1, 2}

\* log: the calls made so far, each with the namespace file it is about and
\* whether it succeeded.
IdleEnterer == [pc |-> "idle", pid |-> NoPid, log |-> <<>>, result |-> "none"]

EnterIdle == enterers = [e \in Enterers |-> IdleEnterer]

\* /proc/<pid>/ns/user and /proc/<pid>/ns/mnt of a ProcDir.
ProcNamespaceFile(pc) ==
    IF pc \in {"user_open", "user_setns"} THEN "user" ELSE "mnt"

Call(op, ns, ok) == [op |-> op, ns |-> ns, ok |-> ok]

\* enter_container going on to the mount namespace whatever the first
\* enter_ns returned.
after_enter_ns_user_ignored(ok) == "mnt_open"

\* enter_container: enter_ns(&ProcNamespaceFile::new_user(..), ..)?; then
\* enter_ns(&ProcNamespaceFile::new_mount(..), ..).
after_enter_ns_user(ok) == IF ok THEN "mnt_open" ELSE "done"

\* The enterer leaves enter_ns with ok: from the first call enter_container
\* goes on or returns the error, the second is its result.
LeaveEnterNs(e, ns, op, ok) ==
    LET to == IF ns = "user" THEN after_enter_ns_user(ok) ELSE "done" IN
    enterers' = [enterers EXCEPT ![e] =
        [@ EXCEPT !.log = Append(@, Call(op, ns, ok)),
                  !.pc = to,
                  !.result = IF to # "done" THEN "none"
                             ELSE IF ok THEN "ok" ELSE "err_" \o ns]]

\* enter_container(pid), called by enter_daemon_space and by the commands
\* that enter a zone process.
enter_container(e, pid) ==
    /\ enterers[e].pc = "idle"
    /\ enterers' = [enterers EXCEPT ![e] =
           [@ EXCEPT !.pc = "user_open", !.pid = pid]]
    /\ UNCHANGED <<dvars, mvars, zvars, rvars, snapFs, snappers, callers>>

\* enter_ns: File::open(&ns_path), which fails when the process is gone.
enter_ns_open(e) ==
    /\ enterers[e].pc \in {"user_open", "mnt_open"}
    /\ LET ns == ProcNamespaceFile(enterers[e].pc) IN
       \E ok \in BOOLEAN :
         IF ok
         THEN enterers' = [enterers EXCEPT ![e] =
                  [@ EXCEPT !.log = Append(@, Call("open", ns, TRUE)),
                            !.pc = ns \o "_setns"]]
         ELSE LeaveEnterNs(e, ns, "open", FALSE)
    /\ UNCHANGED <<dvars, mvars, zvars, rvars, snapFs, snappers, callers>>

\* enter_ns: setns(ns_file.into_raw_fd(), flags)?
enter_ns_setns(e) ==
    /\ enterers[e].pc \in {"user_setns", "mnt_setns"}
    /\ \E ok \in BOOLEAN :
         LeaveEnterNs(e, ProcNamespaceFile(enterers[e].pc), "setns", ok)
    /\ UNCHANGED <<dvars, mvars, zvars, rvars, snapFs, snappers, callers>>

EnterStep(e) ==
    \/ \E pid \in Pids \cup {Daemon} : enter_container(e, pid)
    \/ enter_ns_open(e)
    \/ enter_ns_setns(e)

----------------------------------------------------------------------------
(* Taking a snapshot (snapshot.rs).  A directory is absent, partial (a copy *)
(* that is not complete) or full, and records the process that made it (0:  *)
(* it was there before any of the processes started).                       *)

Snappers == {1, 2}

NoDir == [st |-> "absent", by |-> 0]
Dir(st, by) == [st |-> st, by |-> by]

IdleSnapper == [pc |-> "idle", name |-> "", result |-> "none"]

SnapInit ==
    /\ snapFs \in [SnapNames -> [tmp : {NoDir, Dir("partial", 0)},
                                 dir : {NoDir, Dir("full", 0)}]]
    /\ snappers = [s \in Snappers |-> IdleSnapper]

\* No snapshot is being taken.
SnapIdle ==
    /\ snapFs = [n \in SnapNames |-> [tmp |-> NoDir, dir |-> NoDir]]
    /\ snappers = [s \in Snappers |-> IdleSnapper]

\* The snapper returns from create.
SnapReturn(s, r) ==
    snappers' = [snappers EXCEPT ![s].pc = "done", ![s].result = r]
SnapGoto(s, l) == snappers' = [snappers EXCEPT ![s].pc = l]

\* snapshot::of_workdir(top_dirs, snap_name), that is create(..)
snapshot_create(s, n) ==
    /\ snappers[s].pc = "idle"
    /\ snappers' = [snappers EXCEPT ![s] =
           [pc |-> "check", name |-> n, result |-> "none"]]
    /\ UNCHANGED <<dvars, mvars, zvars, rvars, enterers, snapFs, callers>>

\* create without its test of snap_dir.exists().
create_check_exists_skipped(s) ==
    /\ snappers[s].pc = "check"
    /\ SnapGoto(s, "ensure_tmp")
    /\ UNCHANGED <<dvars, mvars, zvars, rvars, enterers, snapFs, callers>>

\* snapshot.rs:15-19: if snap_dir.exists() { bail!(..already exists..) }
create_check_exists(s) ==
    /\ snappers[s].pc = "check"
    /\ IF snapFs[snappers[s].name].dir.st # "absent"
       THEN SnapReturn(s, "err_exists")
       ELSE SnapGoto(s, "ensure_tmp")
    /\ UNCHANGED <<dvars, mvars, zvars, rvars, enterers, snapFs, callers>>

\* ensure_tmp_dir: when snap-tmp/<name> exists the user is asked whether to
\* delete it; Yes runs remove_dir_all, which may fail, No aborts.
ensure_tmp_dir(s) ==
    /\ snappers[s].pc = "ensure_tmp"
    /\ IF snapFs[snappers[s].name].tmp.st = "absent"
       THEN SnapGoto(s, "cp") /\ UNCHANGED snapFs
       ELSE \E answer \in {"Yes", "YesFails", "No"} :
              IF answer = "Yes"
              THEN /\ snapFs' = [snapFs EXCEPT ![snappers[s].name].tmp = NoDir]
                   /\ SnapGoto(s, "cp")
              ELSE /\ SnapReturn(s, IF answer = "No" THEN "err_aborted"
                                    ELSE "err_remove")
                   /\ UNCHANGED snapFs
    /\ UNCHANGED <<dvars, mvars, zvars, rvars, enterers, callers>>

\* cmd.status(), first half: cp is started and makes its destination
\* directory; with --no-target-directory and --no-clobber it copies into a
\* snap-tmp/<name> that has appeared since ensure_tmp_dir.
create_cp_start(s) ==
    /\ snappers[s].pc = "cp"
    /\ \E spawned \in BOOLEAN :
         IF spawned
         THEN /\ snapFs' = [snapFs EXCEPT ![snappers[s].name].tmp =
                      IF @.st = "absent" THEN Dir("partial", s) ELSE @]
              /\ SnapGoto(s, "cp_run")
         ELSE /\ SnapReturn(s, "err_cp")
              /\ UNCHANGED snapFs
    /\ UNCHANGED <<dvars, mvars, zvars, rvars, enterers, callers>>

\* cmd.status(), second half: cp exits.  The directory it made holds the
\* full copy when it exits with success; a directory that another process
\* made holds what that process has copied so far, and a destination that
\* has been removed or moved away makes cp fail.
create_cp_exit(s) ==
    /\ snappers[s].pc = "cp_run"
    /\ LET n == snappers[s].name IN
       \E success \in BOOLEAN :
         IF success /\ snapFs[n].tmp.st # "absent"
         THEN /\ snapFs' = [snapFs EXCEPT ![n].tmp =
                      IF @.by = s THEN Dir("full", s) ELSE @]
              /\ SnapGoto(s, "rename")
         ELSE /\ SnapReturn(s, "err_cp")
              /\ UNCHANGED snapFs
    /\ UNCHANGED <<dvars, mvars, zvars, rvars, enterers, callers>>

\* snapshot.rs:58-68: rename(snap_tmp_dir, snap_dir), which fails when the
\* source is gone or the target is a directory that is not empty.
create_rename(s) ==
    /\ snappers[s].pc = "rename"
    /\ LET n == snappers[s].name IN
       \E ok \in BOOLEAN :
         IF ok /\ snapFs[n].tmp.st # "absent" /\ snapFs[n].dir.st = "absent"
         THEN /\ snapFs' = [snapFs EXCEPT ![n] =
                      [tmp |-> NoDir, dir |-> snapFs[n].tmp]]
              /\ SnapReturn(s, "ok")
         ELSE /\ SnapReturn(s, "err_rename")
              /\ UNCHANGED snapFs
    /\ UNCHANGED <<dvars, mvars, zvars, rvars, enterers, callers>>

SnapStep(s) ==
    \/ \E n \in SnapNames : snapshot_create(s, n)
    \/ create_check_exists(s)
    \/ ensure_tmp_dir(s)
    \/ create_cp_start(s)
    \/ create_cp_exit(s)
    \/ create_rename(s)

----------------------------------------------------------------------------
(* metadata_matches on its own (merge.rs:247-268): one call, for any two    *)
(* Metadata values.                                                         *)

\* The Metadata values compared: every file type the three tests of
\* FileType tell apart and two they do not, two lengths, two times and a
\* time that cannot be read, two permissions.
MetaInputs ==
    { [st |-> "ok", type |-> t, len |-> l, mtime |-> m, perm |-> p] :
        t \in {"dir", "file", "symlink", "fifo", "socket"},
        l \in {10, 11}, m \in {NoTime, 0, 1}, p \in {644, 755} }

MatchIdle ==
    cmp = [pc |-> "idle", x |-> NotFound, y |-> NotFound, matches |-> FALSE]

MatchInit ==
    cmp \in [pc : {"start"}, x : MetaInputs, y : MetaInputs, matches : {FALSE}]

\* metadata_matches(&x, &y)
metadata_matches_call ==
    /\ cmp.pc = "start"
    /\ cmp' = [cmp EXCEPT !.pc = "done",
                          !.matches = metadata_matches(cmp.x, cmp.y)]
    /\ UNCHANGED <<dvars, mvars, zvars, xvars, runners>>

----------------------------------------------------------------------------
(* `mzr run` (lib.rs:149-191).  Each run is a process of its own, with the  *)
(* snapshot and the zone named after its pid.                               *)

Runners == {1, 2}

\* The ExitStatus values child.wait() can return: the command exited with a
\* code, or was killed by a signal.
ExitStatuses ==
    [kind : {"code"}, n : {0, 1, 255}] \cup [kind : {"signal"}, n : {9, 15}]
NoStatus == [kind |-> "none", n |-> 0]

\* The process has not exited.
NoExit == -1

\* log: the steps of run that have been completed, in the order they were.
IdleRunner ==
    [pc |-> "idle", log |-> <<>>, status |-> NoStatus, exit |-> NoExit,
     ret |-> "none"]

RunIdle == runners = [r \in Runners |-> IdleRunner]

\* std::process::exit(code): the status the parent of the process sees.
exit(code) == code % 256

\* exit_with_status passing on the code only: a command killed by a signal
\* counts as a plain failure.
exit_with_status_code_only(status) ==
    IF status.kind = "code" THEN exit(status.n) ELSE exit(1)

\* exit_with_status: exit(0), exit(code) or exit(128 + signal).
exit_with_status(status) ==
    IF status.kind = "code" /\ status.n = 0 THEN exit(0)
    ELSE IF status.kind = "code" THEN exit(status.n)
    ELSE exit(128 + status.n)

\* A step of run that ends with `?`: on Ok the step is done and run goes on
\* with the next, on Err run returns the error.
RunCall(r, step, next) ==
    /\ runners[r].pc = step
    /\ \E ok \in BOOLEAN :
         runners' = [runners EXCEPT ![r] =
             IF ok THEN [@ EXCEPT !.log = Append(@, step), !.pc = next]
             ELSE [@ EXCEPT !.pc = "returned", !.ret = "err_" \o step]]
    /\ UNCHANGED <<dvars, mvars, zvars, xvars, cmp>>

\* run: TopDirs::find_or_prompt_create and the names made of the pid.
run(r) ==
    /\ runners[r].pc = "idle"
    /\ runners' = [runners EXCEPT ![r].pc = "snapshot"]
    /\ UNCHANGED <<dvars, mvars, zvars, xvars, cmp>>

\* snapshot::of_workdir(&top_dirs, &snap_name)?
run_of_workdir(r) == RunCall(r, "snapshot", "create")

\* Zone::create(&top_dirs.mzr_dir, &zone_name, &snap_name)?
run_Zone_create(r) == RunCall(r, "create", "enter")

\* enter_zone(&top_dirs, &zone_name)?
run_enter_zone(r) == RunCall(r, "enter", "spawn")

\* Command::new(&opts.cmd).args(&opts.args).spawn()?
run_spawn(r) == RunCall(r, "spawn", "wait")

\* child.wait()?: returns when the command has terminated, with its status.
run_wait(r) ==
    /\ runners[r].pc = "wait"
    /\ \/ \E st \in ExitStatuses :
            runners' = [runners EXCEPT ![r] =
                [@ EXCEPT !.log = Append(@, "wait"), !.status = st,
                          !.pc = "merge"]]
       \/ runners' = [runners EXCEPT ![r] =
                [@ EXCEPT !.pc = "returned", !.ret = "err_wait"]]
    /\ UNCHANGED <<dvars, mvars, zvars, xvars, cmp>>

\* interactive_merge(&zone, .., Mode::AutoApplyUpdates)?: it returns Ok(())
\* on every path (merge.rs:81).
run_interactive_merge(r) ==
    /\ runners[r].pc = "merge"
    /\ runners' = [runners EXCEPT ![r] =
           [@ EXCEPT !.log = Append(@, "merge"), !.pc = "exit"]]
    /\ UNCHANGED <<dvars, mvars, zvars, xvars, cmp>>

\* exit_with_status(status)
run_exit_with_status(r) ==
    /\ runners[r].pc = "exit"
    /\ runners' = [runners EXCEPT ![r] =
           [@ EXCEPT !.log = Append(@, "exit"), !.pc = "exited",
                     !.exit = exit_with_status(runners[r].status)]]
    /\ UNCHANGED <<dvars, mvars, zvars, xvars, cmp>>

RunStep(r) ==
    \/ run(r)
    \/ run_of_workdir(r)
    \/ run_Zone_create(r)
    \/ run_enter_zone(r)
    \/ run_spawn(r)
    \/ run_wait(r)
    \/ run_interactive_merge(r)
    \/ run_exit_with_status(r)

----------------------------------------------------------------------------

DaemonStep ==
    \/ accept_incoming
    \/ handle_client_recv
    \/ zone_mount
    \/ fork_zone_process_clone
    \/ map_user_to_root
    \/ send_ready
    \/ fork_zone_process_read
    \/ handle_client_respond

AnchorStep(p) ==
    \/ recv_ready_connect(p)
    \/ recv_ready_recv(p)
    \/ child_fn_prctl(p)
    \/ child_fn_bind(p)
    \/ child_fn_write_ready(p)

Next ==
    \/ \E z \in Zones : client_send_request(z)
    \/ \E in \in RawInputs : client_send_raw(in)
    \/ DaemonStep
    \/ \E p \in Pids : AnchorStep(p)

\* No command of the client is running.
ClientIdle == EnterIdle /\ SnapIdle /\ CallIdle /\ RunIdle /\ MatchIdle

\* The daemon and its clients; no merge and no zone creation is under way.
Init == DaemonInit /\ MergeIdle /\ CreateIdle /\ ClientIdle

Spec == Init /\ [][Next]_vars

\* Every process is scheduled by the kernel: a step of the daemon or of a
\* cloned process that stays possible is eventually taken.
FairSpec ==
    /\ Spec
    /\ WF_vars(DaemonStep)
    /\ \A p \in Pids : WF_vars(AnchorStep(p))

\* A daemon that has no zone to serve and no client.
DaemonIdle == DaemonInit /\ zoneDisk = [z \in Zones |-> "absent"]

MergeInitial == DaemonIdle /\ MergeInit /\ CreateIdle /\ ClientIdle

\* A merge of a zone's change layer into a target tree.
SpecMerge == MergeInitial /\ [][MergeStep]_vars

CreateInitial == DaemonIdle /\ MergeIdle /\ CreateInit /\ ClientIdle

CreateNext == \E c \in Creators : CreateStep(c)

\* The commands that create zones, running side by side.
SpecZone == CreateInitial /\ [][CreateNext]_vars

LifeNext ==
    \/ Next
    \/ daemon_exit
    \/ \E p \in Pids : AnchorEnd(p)

\* The daemon, its clients and its zone processes, with a daemon that may
\* end at any moment.
SpecLife == Init /\ [][LifeNext]_vars

\* Every process that can take a step eventually takes one; nothing says
\* that the daemon ends.
FairLife ==
    /\ SpecLife
    /\ WF_vars(DaemonStep)
    /\ \A p \in Pids : WF_vars(AnchorStep(p)) /\ WF_vars(AnchorEnd(p))

EnterInitial ==
    /\ DaemonIdle /\ MergeIdle /\ CreateIdle
    /\ EnterIdle /\ SnapIdle /\ CallIdle /\ RunIdle /\ MatchIdle

EnterNext == \E e \in Enterers : EnterStep(e)

\* The commands that enter the namespaces of a process.
SpecEnter == EnterInitial /\ [][EnterNext]_vars

SnapInitial ==
    /\ DaemonIdle /\ MergeIdle /\ CreateIdle
    /\ EnterIdle /\ SnapInit /\ CallIdle /\ RunIdle /\ MatchIdle

SnapNext == \E s \in Snappers : SnapStep(s)

\* The commands that take snapshots, running side by side.
SpecSnap == SnapInitial /\ [][SnapNext]_vars

CallNext ==
    \/ \E k \in Callers : CallStep(k)
    \/ DaemonStep
    \/ \E p \in Pids : AnchorStep(p)

\* A command that calls get_zone_process, the daemon and its zone processes.
SpecCall == Init /\ [][CallNext]_vars

MatchInitial ==
    /\ DaemonIdle /\ MergeIdle /\ CreateIdle
    /\ EnterIdle /\ SnapIdle /\ CallIdle /\ RunIdle /\ MatchInit

\* One comparison of two Metadata values.
SpecMatch == MatchInitial /\ [][metadata_matches_call]_vars

RunInitial == DaemonIdle /\ MergeIdle /\ CreateIdle /\ ClientIdle

RunNext == \E r \in Runners : RunStep(r)

\* The `mzr run` commands, running side by side.
SpecRun == RunInitial /\ [][RunNext]_vars

----------------------------------------------------------------------------
(* Properties.                                                              *)

\* The connection has been handled to the end of handle_client.
Handled(c) == conns[c].state = "closed"

\* The request the daemon decodes from what connection c carries.
Decoded(c) == recv_request(conns[c].reqBuf)

\* C1: the parent sends Ready only after uid_map, setgroups and gid_map of
\* the child have all been written, and whenever the child body runs after
\* a successful receive the three writes have been completed.
C1_ReadyAfterMapping ==
    \A p \in Pids :
        /\ anchors[p].server = "sent" => anchors[p].written = ControlFiles
        /\ (anchors[p].ranChildFn /\ anchors[p].recvOk = "ok")
               => anchors[p].written = ControlFiles

\* A child body that runs after it received Ready.
C1_Witness ==
    \E p \in Pids :
        /\ anchors[p].ranChildFn
        /\ anchors[p].recvOk = "ok"
        /\ anchors[p].written = ControlFiles

\* C2: the child body never runs unless the child received Ready; when the
\* rendezvous fails the child exits without running child_fn.
C2_ChildFnOnlyAfterReady ==
    \A p \in Pids : anchors[p].ranChildFn => anchors[p].recvOk = "ok"

\* C3: the first request for a zone that is answered with a pid clones
\* exactly one process; every later request for the zone is answered with
\* the same pid and makes neither an overlay mount nor a clone.
C3_OneForkThenReuse ==
    \A z \in Zones : \A c \in Conns :
        ( /\ Handled(c)
          /\ Decoded(c) = RequestZoneProcess(z)
          /\ conns[c].resp.tag = "ZoneProcess"
          /\ \A b \in 1..(c - 1) :
                ~(Decoded(b) = RequestZoneProcess(z)
                  /\ conns[b].resp.tag = "ZoneProcess") )
        => /\ conns[c].nForks = 1
           /\ \A e \in (c + 1)..MaxConns :
                (Handled(e) /\ Decoded(e) = RequestZoneProcess(z))
                => /\ conns[e].resp = conns[c].resp
                   /\ conns[e].nForks = 0
                   /\ conns[e].nMounts = 0

\* Two handled requests for one zone, the first of which made the clone.
C3_Witness ==
    \E z \in Zones : \E c \in Conns : \E e \in Conns :
        /\ c < e /\ Handled(c) /\ Handled(e)
        /\ Decoded(c) = RequestZoneProcess(z)
        /\ Decoded(e) = RequestZoneProcess(z)
        /\ conns[c].nForks = 1
        /\ conns[e].resp.tag = "ZoneProcess"

\* The cloned process has completed its bind mount and written READY_MSG.
ProjectionComplete(p) ==
    /\ p \in Pids
    /\ anchors[p].bound
    /\ anchors[p].pairBuf = READY_MSG

\* C4: a pid is entered in the ProcessMap and sent in a ZoneProcess response
\* only after the daemon has read the readiness message, which the cloned
\* process writes only after its bind mount succeeded: every pid returned
\* belongs to a process whose projection mount is complete.
C4_PidOnlyAfterReadiness ==
    /\ \A p \in Pids : anchors[p].pairBuf # <<>> => anchors[p].bound
    /\ \A z \in Zones :
          processes[z] # NoPid => ProjectionComplete(processes[z])
    /\ result.tag = "ZoneProcess" => ProjectionComplete(result.pid)
    /\ \A c \in Conns :
          conns[c].resp.tag = "ZoneProcess" => ProjectionComplete(conns[c].resp.pid)

\* A ZoneProcess response written for a zone that had to be cloned.
C4_Witness ==
    \E c \in Conns :
        /\ conns[c].nForks = 1
        /\ conns[c].resp.tag = "ZoneProcess"
        /\ conns[c].respBuf # <<>>

\* The connection handled last.
LastHandled == CHOOSE c \in Conns :
    Handled(c) /\ \A d \in Conns : Handled(d) => d <= c

\* C5: when the creation of a zone process fails at any step, no entry for
\* the zone is inserted in the ProcessMap and the existing entries are
\* unchanged: while a request is handled, and after it ended in an Error,
\* the ProcessMap is what it was when the connection was accepted.
C5_FailureLeavesRegistry ==
    /\ (dpc \notin {"accept", "respond"}) => processes = regAtAccept
    /\ (dpc = "respond" /\ result.tag = "Error") => processes = regAtAccept
    /\ ( /\ dpc = "accept"
         /\ \E c \in Conns : Handled(c)
         /\ conns[LastHandled].resp.tag = "Error" )
       => processes = regAtAccept

\* A creation that failed in the identity mapping, after a process had been
\* cloned, while another zone is registered.
C5_Witness ==
    /\ dpc = "accept"
    /\ \E c \in Conns : Handled(c)
    /\ conns[LastHandled].resp = UnexpectedError("map")
    /\ conns[LastHandled].nForks = 1
    /\ \E z \in Zones : processes[z] # NoPid

\* C6: when a cloned process terminates without having sent its readiness
\* message, the daemon eventually leaves its readiness read and gets back
\* to accepting connections.
C6_ReadinessReadEnds ==
    (dpc = "read_ready" /\ anchors[curPid].pc = "exited") ~> (dpc = "accept")

\* The daemon decodes a request for zone z that has no entry in the
\* ProcessMap and no zone directory on disk.
DecodesAbsent(z) ==
    /\ dpc = "recv"
    /\ dpc' # "recv"
    /\ Decoded(cur) = RequestZoneProcess(z)
    /\ processes[z] = NoPid
    /\ zoneDisk[z] = "absent"

\* C7: a request for a zone that is not registered and has no directory on
\* disk is answered with Error("Zone does not exist"); nothing is mounted,
\* nothing is cloned and the ProcessMap is unchanged.
C7_AbsentZoneError ==
    /\ [][ \A z \in Zones : DecodesAbsent(z) =>
              /\ result' = ResponseError("Zone does not exist")
              /\ dpc' = "respond"
              /\ UNCHANGED <<processes, mounts, forks, anchors>> ]_vars
    /\ [][ (dpc = "respond" /\ dpc' # "respond") =>
              /\ conns'[cur].resp = result
              /\ UNCHANGED <<processes, mounts, forks, anchors>> ]_vars
    /\ [](\A c \in Conns :
            conns[c].resp = ResponseError("Zone does not exist")
            => conns[c].nForks = 0 /\ conns[c].nMounts = 0)

\* The error has been written to a client that asked for an absent zone.
C7_Witness ==
    \E c \in Conns : \E z \in Zones :
        /\ Handled(c)
        /\ Decoded(c) = RequestZoneProcess(z)
        /\ zoneDisk[z] = "absent"
        /\ conns[c].respBuf = send_response(ResponseError("Zone does not exist"))

\* C8: connections are handled strictly one at a time: a connection is
\* accepted only when the handling of every earlier connection has
\* finished, so at most one handler is ever at work on the ProcessMap.
C8_OneConnectionAtATime ==
    /\ Cardinality({c \in Conns : conns[c].state = "handling"}) <= 1
    /\ \A c \in Conns :
          conns[c].state = "handling" => (c = cur /\ dpc # "accept")
    /\ \A c \in Conns : \A d \in 1..(c - 1) :
          conns[c].state \in {"handling", "closed"} => conns[d].state = "closed"

\* A connection waits in the listener's queue while an earlier one is in
\* the middle of a zone-process creation.
C8_Witness ==
    \E c \in Conns : \E d \in Conns :
        /\ c < d
        /\ conns[c].state = "handling"
        /\ dpc = "read_ready"
        /\ conns[d].state = "pending"

\* C9: a request that cannot be decoded ends the handling of its connection
\* only: the ProcessMap is unchanged, nothing is mounted or cloned, and the
\* daemon gets back to accepting connections.
C9_MalformedRequestIsLocal ==
    /\ [][ (dpc = "recv" /\ dpc' # "recv" /\ Decoded(cur) = NoRequest) =>
              /\ result' = UnexpectedError("decode")
              /\ dpc' = "respond"
              /\ UNCHANGED <<processes, mounts, forks, anchors>> ]_vars
    /\ [][ (dpc = "respond" /\ dpc' # "respond") =>
              /\ dpc' = "accept"
              /\ UNCHANGED <<processes, mounts, forks, anchors>> ]_vars

\* A request is served with a pid on a connection that follows a malformed
\* one.
C9_Witness ==
    \E c \in Conns : \E d \in Conns :
        /\ c < d
        /\ Handled(c) /\ conns[c].resp = UnexpectedError("decode")
        /\ Handled(d) /\ conns[d].resp.tag = "ZoneProcess"
        /\ conns[d].respBuf # <<>>

\* C10 as stated: every message written on the socket, request or
\* response, is the complete serialized record followed by one newline.
C10_EveryMessageNewlineTerminated ==
    \A c \in Conns :
        /\ conns[c].kind = "mzr" =>
              conns[c].reqBuf = to_writer_request(conns[c].sent) \o <<NL>>
        /\ conns[c].respBuf # <<>> =>
              conns[c].respBuf = to_writer_response(conns[c].resp) \o <<NL>>

\* C10 amended: every request mzr writes is the complete serialized record
\* followed by exactly one newline; every response the daemon writes is the
\* complete serialized record with no newline after it.
C10_RequestTerminatedResponseBare ==
    \A c \in Conns :
        /\ conns[c].kind = "mzr" =>
              conns[c].reqBuf = to_writer_request(conns[c].sent) \o <<NL>>
        /\ (Handled(c) /\ conns[c].clientOpen) =>
              /\ conns[c].respBuf = to_writer_response(conns[c].resp)
              /\ \A i \in 1..Len(conns[c].respBuf) : conns[c].respBuf[i] # NL

\* A request of mzr has been answered.
C10_Witness ==
    \E c \in Conns :
        /\ conns[c].kind = "mzr"
        /\ Handled(c)
        /\ conns[c].respBuf # <<>>

\* C11: the ProcessMap holds at most one pid per zone name, and once a zone
\* name has an entry the entry is never removed and its pid never changes.
C11_RegistryEntriesAreStable ==
    /\ [](processes \in [Zones -> Pids \cup {NoPid}])
    /\ [][\A z \in Zones :
            processes[z] # NoPid => processes'[z] = processes[z]]_vars

\* Both zones are registered: the entry made first is there, with a pid of
\* its own, after the daemon has cloned and registered the second.
C11_Witness ==
    /\ \A z \in Zones : processes[z] # NoPid
    /\ processes["z1"] # processes["z2"]
    /\ dpc = "accept"

\* The plan has been made of the trees as they are now.
PlanMade == mpc \in {"planned", "merged"}

\* An entry of the change layer that is not a directory and whose metadata
\* the walk has read.
Leaf(p) == changes[p].st = "ok" /\ changes[p].type # "dir"

\* The path is in this list of the plan and in no other.
OnlyIn(p, kind) ==
    /\ (p \in PathsOf(plan.updates)) = (kind = "update")
    /\ (p \in PathsOf(plan.conflicts)) = (kind = "conflict")
    /\ (p \in PathsOf(plan.skips)) = (kind = "skip")

\* The plan holds this item.
Holds(items, item) == \E i \in 1..Len(items) : items[i] = item

\* C12: a non-directory path of the change layer whose metadata can be read
\* and that does not exist in the target tree is an Update, whether or not
\* it exists in the snapshot (and whether or not the snapshot can be read).
C12_TargetAbsentIsUpdate ==
    PlanMade =>
        \A p \in Paths :
            (Leaf(p) /\ target[p].st = "absent")
            => /\ OnlyIn(p, "update")
               /\ Holds(plan.updates, Update(p, changes[p], NotFound))

\* A plan with an Update for a path that the target lacks and the snapshot
\* has, and one for a path that neither has.
C12_Witness ==
    /\ PlanMade
    /\ \E p \in Paths, q \in Paths :
          /\ Leaf(p) /\ target[p].st = "absent" /\ snapshot[p].st = "ok"
          /\ Leaf(q) /\ target[q].st = "absent" /\ snapshot[q].st = "absent"
          /\ {p, q} \subseteq PathsOf(plan.updates)

\* C13: a non-directory path of the change layer (an entry the walk has
\* read) that exists in the target tree and does not exist in the snapshot
\* is a Conflict with reason NotInSnapshot.
C13_NotInSnapshotIsConflict ==
    PlanMade =>
        \A p \in Paths :
            (Leaf(p) /\ target[p].st = "ok" /\ snapshot[p].st = "absent")
            => /\ OnlyIn(p, "conflict")
               /\ Holds(plan.conflicts,
                        Conflict(p, "NotInSnapshot", changes[p], target[p]))

\* A plan with a NotInSnapshot conflict.
C13_Witness ==
    /\ PlanMade
    /\ \E i \in 1..Len(plan.conflicts) :
          /\ plan.conflicts[i].reason = "NotInSnapshot"
          /\ snapshot[plan.conflicts[i].rel_path].st = "absent"
          /\ target[plan.conflicts[i].rel_path].st = "ok"

\* C14: a non-directory path of the change layer that exists in the target
\* and in the snapshot is an Update when the target's length, modification
\* time, permissions and file type are those of the snapshot, and a
\* Conflict with reason ModifiedInTarget otherwise, whatever the zone's
\* version of the path is.
C14_SnapshotComparisonDecides ==
    PlanMade =>
        \A p \in Paths :
            (Leaf(p) /\ target[p].st = "ok" /\ snapshot[p].st = "ok")
            => IF target[p] = snapshot[p]
               THEN /\ OnlyIn(p, "update")
                    /\ Holds(plan.updates, Update(p, changes[p], target[p]))
               ELSE /\ OnlyIn(p, "conflict")
                    /\ Holds(plan.conflicts,
                             Conflict(p, "ModifiedInTarget", changes[p], target[p]))

\* A plan with an Update for a path the target has as the snapshot took it,
\* though the zone's version is the snapshot's too, and a ModifiedInTarget
\* conflict for a path of which only the modification time differs.
C14_Witness ==
    /\ PlanMade
    /\ \E p \in Paths, q \in Paths :
          /\ changes[p] = MBase /\ target[p] = MBase /\ snapshot[p] = MBase
          /\ p \in PathsOf(plan.updates)
          /\ Leaf(q) /\ target[q] = MTime /\ snapshot[q] = MBase
          /\ q \in PathsOf(plan.conflicts)

\* A lookup the walk makes for the entry fails: the walk itself, the
\* entry's metadata, the target's, or (the target being there) the
\* snapshot's.
LookupFails(p) ==
    \/ changes[p].st \in {"walk_err", "err"}
    \/ Leaf(p) /\ target[p].st = "err"
    \/ Leaf(p) /\ target[p].st = "ok" /\ snapshot[p].st = "err"

\* C15: an entry that cannot be walked, or for which a metadata lookup of
\* the source, the target or the snapshot fails with an error other than
\* not-found, is a Skip and neither an Update nor a Conflict, and the walk
\* goes on: every other entry that is not a directory is classified too.
C15_FailedLookupIsSkip ==
    PlanMade =>
        /\ \A p \in Paths : LookupFails(p) => OnlyIn(p, "skip")
        /\ \A q \in Paths :
              (LookupFails(q) \/ Leaf(q))
              => \E k \in {"update", "conflict", "skip"} : OnlyIn(q, k)
        /\ Len(plan.updates) + Len(plan.conflicts) + Len(plan.skips)
              = Cardinality({q \in Paths : LookupFails(q) \/ Leaf(q)})

\* The first entry of the walk is skipped for a failed lookup in the target
\* and the entry after it is classified.
C15_Witness ==
    /\ PlanMade
    /\ Len(walkOrder) = 2
    /\ Leaf(walkOrder[1]) /\ target[walkOrder[1]].st = "err"
    /\ walkOrder[1] \in PathsOf(plan.skips)
    /\ walkOrder[2] \in PathsOf(plan.updates)

C17_RoundTripLeavesNothing ==
    ( /\ mpc = "replanned"
      /\ plan.conflicts = <<>>
      /\ plan.skips = <<>> )
    => \A p \in PathsOf(plan.updates) :
          p \notin PathsOf(plan2.updates) \cup PathsOf(plan2.conflicts)

\* C18: interactive_merge reports every Conflict of the plan and, unless the
\* mode is AutoApplyConflicts, leaves every conflicting path of the target
\* tree as it was.
C18_ConflictsReportedNotApplied ==
    [][(mpc = "start" /\ mpc' = "merged")
       => /\ \A p \in PathsOf(plan'.conflicts) :
                Holds(reported', [kind |-> "conflict", rel_path |-> p])
          /\ mode' # "AutoApplyConflicts"
                => \A p \in PathsOf(plan'.conflicts) : target'[p] = target[p]]_vars

\* C19: when interactive_merge has returned to mzr run, which calls it with
\* AutoApplyUpdates, every path of an Update is in the target tree with the
\* zone's version.
C19_RunFoldsUpdatesBack ==
    (mpc = "merged" /\ mode = "AutoApplyUpdates")
    => \A i \in 1..Len(plan.updates) :
          target[plan.updates[i].rel_path] = plan.updates[i].source_metadata

\* C20: create_impl called for a snapshot whose directory does not exist
\* fails at its first step, which leaves the disk as it is, and does nothing
\* after it: a zone that was not on disk when it was called has no zone
\* directory, no changes, work or mount directory and no info record.
C20_MissingSnapshotCreatesNothing ==
    [][\A c \in Creators :
         /\ ( /\ creators[c].pc = "check_snap"
              /\ creators[c].snap \notin snapDirs
              /\ creators'[c] # creators[c] )
            => /\ creators'[c].pc = "done"
               /\ creators'[c].result = "err_snapshot"
               /\ zoneFs' = zoneFs
         /\ creators'[c].result = "err_snapshot"
            => /\ creators[c].pc \in {"check_snap", "done"}
               /\ creators[c].pc = "done" => creators'[c] = creators[c]]_vars

\* A creation has failed for its snapshot and the zone is not on disk.
C20_Witness ==
    \E c \in Creators :
        /\ creators[c].result = "err_snapshot"
        /\ creators[c].snap \notin snapDirs
        /\ zoneFs[creators[c].zone] = AbsentZone

\* The zone's info file holds a record.
HasInfo(z) == zoneFs[z].info \notin {"none", "partial"}

\* C21: in every state, so in every state another process can observe and
\* in every state a failed creation leaves behind, the changes, work and
\* mount directories of a zone exist if and only if its info record exists.
C21_DirectoriesIffInfo ==
    \A z \in Zones :
        /\ zoneFs[z].changes = HasInfo(z)
        /\ zoneFs[z].work = HasInfo(z)
        /\ zoneFs[z].mount = HasInfo(z)

\* C22: Zone::create for a name whose zone directory exists returns the
\* 'zone already exists' error.
C22_ExistingZoneIsAlreadyExists ==
    \A c \in Creators :
        (creators[c].pc = "done" /\ creators[c].existed)
        => creators[c].result = "err_exists"

\* C22, as the code has it: Zone::create for a name whose zone directory
\* exists fails, with the error of the first check that fails (the
\* snapshot directory, the zone's parent directory, create_dir), which is
\* 'zone already exists' whenever create_dir is reached, and no step of
\* the call changes anything under the zone directory.
C22_ExistingZoneFailsUnchanged ==
    [][\A c \in Creators :
         (creators[c].existed /\ creators'[c] # creators[c])
         => /\ zoneFs' = zoneFs
            /\ creators'[c].pc = "done"
                 => creators'[c].result \in
                        {"err_snapshot", "err_parent", "err_exists"}
            /\ creators[c].pc = "create_dir"
                 => creators'[c].result = "err_exists"]_vars

\* A creation under the name of a complete zone, for another snapshot, has
\* returned 'zone already exists' and the zone's record names its snapshot.
C22_Witness ==
    \E c \in Creators :
        /\ creators[c].existed
        /\ creators[c].result = "err_exists"
        /\ creators[c].snap = "s2"
        /\ zoneFs[creators[c].zone] = CompleteZone("s1")

\* C23: a zone process that has sent its readiness message stays blocked in
\* its read for as long as the daemon is alive: the read does not reach end
\* of file, not even when the daemon has dropped its ends of the socket
\* pair, so the pid of every entry of the ProcessMap is that of a live,
\* blocked process.
C23_AnchorStaysBlocked ==
    /\ [](\A p \in Pids :
            anchors[p].pc = "blocked" => ~read_to_end_returns(anchors[p]))
    /\ [][\A p \in Pids :
            (anchors[p].pc = "blocked" /\ dpc' # "dead")
            => anchors'[p].pc = "blocked"]_vars
    /\ [](dpc # "dead" =>
            \A z \in Zones :
                processes[z] # NoPid => anchors[processes[z]].pc = "blocked")

\* The daemon has dropped its ends of the pair of a registered zone process
\* and has answered a request since; the process is blocked in its read.
C23_Witness ==
    /\ dpc = "accept"
    /\ \E z \in Zones :
          /\ processes[z] # NoPid
          /\ anchors[processes[z]].pc = "blocked"
          /\ Daemon \notin anchors[processes[z]].serverHolders
          /\ Daemon \notin anchors[processes[z]].clientHolders
    /\ \A c \in Conns : Handled(c)

\* C24: when the daemon has ended, every process it has cloned eventually
\* terminates, at whatever point of its start the daemon ended.
C24_NoAnchorOutlivesDaemon ==
    (dpc = "dead") ~> (\A p \in Pids : ~Alive(p))

\* C25: enter_container switches the user namespace before the mount
\* namespace: a call about the mount namespace is made only after setns
\* into the user namespace has succeeded, and no call follows a failed one.
C25_UserBeforeMount ==
    \A e \in Enterers :
        LET log == enterers[e].log IN
        \A i \in 1..Len(log) :
            /\ log[i].ns = "mnt"
               => \E j \in 1..(i - 1) : log[j] = Call("setns", "user", TRUE)
            /\ ~log[i].ok => i = Len(log)

\* A process has entered both namespaces, and another has failed to enter
\* the user namespace and has returned.
C25_Witness ==
    \E e \in Enterers, f \in Enterers :
        /\ enterers[e].result = "ok"
        /\ enterers[e].log = <<Call("open", "user", TRUE), Call("setns", "user", TRUE),
                               Call("open", "mnt", TRUE), Call("setns", "mnt", TRUE)>>
        /\ enterers[f].result = "err_user"
        /\ enterers[f].log = <<Call("open", "user", TRUE), Call("setns", "user", FALSE)>>

\* C26: when no request is being handled, a zone that has no entry in the
\* ProcessMap (its creation has not been asked for, or has failed) has no
\* overlay mount in the daemon's namespace and no process cloned for it
\* that is still running.
C26_FailedCreationLeavesNothing ==
    dpc = "accept" =>
        \A z \in Zones :
            processes[z] = NoPid
            => /\ mounts[z] = 0
               /\ \A p \in Pids : anchors[p].zone = z => ~Alive(p)

\* C27: snapshot::create under a name whose snap/<name> exists fails at its
\* first test, which copies nothing and leaves snap-tmp and snap as they
\* are, and does nothing after it; a create that succeeds has moved the
\* directory it copied into to snap/<name>, which did not exist before.
C27_ExistingSnapshotUntouched ==
    [][\A s \in Snappers :
         LET n == snappers[s].name IN
         /\ ( /\ snappers[s].pc = "check"
              /\ snapFs[n].dir.st # "absent"
              /\ snappers'[s] # snappers[s] )
            => /\ snappers'[s].pc = "done"
               /\ snappers'[s].result = "err_exists"
               /\ snapFs' = snapFs
         /\ snappers'[s].result = "err_exists"
            => /\ snappers[s].pc \in {"check", "done"}
               /\ snappers[s].pc = "done" => snappers'[s] = snappers[s]
         /\ (snappers'[s].result = "ok" /\ snappers[s].result # "ok")
            => /\ snapFs[n].dir = NoDir
               /\ snapFs'[n].dir = snapFs[n].tmp
               /\ snapFs'[n].dir # NoDir]_vars

\* One create has failed for a snapshot that was there and is there as it
\* was, and one has made a snapshot under another name.
C27_Witness ==
    \E s \in Snappers, t \in Snappers :
        /\ snappers[s].result = "err_exists"
        /\ snapFs[snappers[s].name].dir = Dir("full", 0)
        /\ snappers[t].result = "ok"
        /\ snapFs[snappers[t].name].dir = Dir("full", t)

\* C28: in every state snap/<name> does not exist or holds a full copy.
C28_SnapDirComplete ==
    \A n \in SnapNames : snapFs[n].dir.st \in {"absent", "full"}

\* The connections that carry a request for zone z.
ConnsFor(z) == {c \in Conns : Decoded(c) = RequestZoneProcess(z)}

\* C29: whatever the number of connections that ask for a zone at the same
\* time, at most one overlay mount and one clone are made for the zone in
\* total, and all ZoneProcess responses for it carry the same pid.
C29_OneMountOneFork ==
    \A z \in Zones :
        /\ mounts[z] <= 1
        /\ forks[z] <= 1
        /\ \A c \in ConnsFor(z), e \in ConnsFor(z) :
              (conns[c].resp.tag = "ZoneProcess" /\ conns[e].resp.tag = "ZoneProcess")
              => conns[c].resp = conns[e].resp

C31_StepsInOrder ==
    \A p \in Pids :
        /\ anchors[p].pc # "none" => mounts[anchors[p].zone] >= 1
        /\ (anchors[p].pc = "bind" \/ anchors[p].bound)
             => anchors[p].written = ControlFiles /\ anchors[p].recvOk = "ok"
        /\ anchors[p].pairBuf # <<>> => anchors[p].bound

\* C32: every connection of an mzr client that the daemon has accepted is
\* eventually answered, with a ZoneProcess or an Error response.
C32_EveryConnectionAnswered ==
    \A c \in Conns :
        (conns[c].state = "handling" /\ conns[c].kind = "mzr")
        ~> (Handled(c) /\ conns[c].resp.tag \in {"ZoneProcess", "Error"})

\* The step of the daemon is a write of map_user_to_root that failed.
MappingFails ==
    /\ dpc = "map"
    /\ dpc' # "map"
    /\ anchors'[curPid].written = anchors[curPid].written

\* C33: when a write of a control file fails, with_unshared_user_and_mount
\* returns an error at once: the request ends with an Error, Ready is not
\* sent and never will be, and no control file of the child is written
\* afterwards.
C33_MappingFailureIsFinal ==
    /\ [][MappingFails
            => /\ dpc' = "respond"
               /\ result'.tag = "Error"
               /\ anchors'[curPid].server = "dropped"]_vars
    /\ [][\A p \in Pids :
            anchors[p].server = "dropped"
            => /\ anchors'[p].server = "dropped"
               /\ anchors'[p].written = anchors[p].written]_vars
    /\ [](\A p \in Pids :
            anchors[p].server = "dropped" => anchors[p].written # ControlFiles)

\* The write of setgroups has failed after uid_map was written: the request
\* was answered with the error and the child has found the server dropped.
C33_Witness ==
    \E p \in Pids, c \in Conns :
        /\ anchors[p].server = "dropped"
        /\ anchors[p].written = <<"uid_map">>
        /\ anchors[p].recvOk = "err"
        /\ conns[c].nForks = 1
        /\ conns[c].resp = UnexpectedError("map")

\* C34: the control files of a child are written in the order uid_map,
\* setgroups, gid_map, each at most once: gid_map is never written before
\* setgroups.
C34_SetgroupsBeforeGidMap ==
    \A p \in Pids :
        LET w == anchors[p].written IN
        /\ Len(w) <= 3
        /\ \A i \in 1..Len(w) :
              /\ w[i] = "uid_map" => i = 1
              /\ w[i] = "setgroups" => i = 2 /\ w[1] = "uid_map"
              /\ w[i] = "gid_map" => i = 3 /\ w[2] = "setgroups"

\* gid_map of a child has been written.
C34_Witness ==
    \E p \in Pids :
        /\ Len(anchors[p].written) = 3
        /\ anchors[p].written[3] = "gid_map"

\* C35: a request for a zone that is not in the ProcessMap and whose
\* directory holds no readable info record is answered with an Error;
\* nothing is mounted or cloned for the zone and it never enters the
\* ProcessMap.
C35_BrokenZoneIsError ==
    \A z \in Zones :
        zoneDisk[z] = "broken"
        => /\ mounts[z] = 0 /\ forks[z] = 0
           /\ processes[z] = NoPid
           /\ \A c \in Conns :
                 Decoded(c) = RequestZoneProcess(z)
                 => /\ conns[c].nMounts = 0 /\ conns[c].nForks = 0
                    /\ Handled(c) => conns[c].resp = UnexpectedError("load")
           /\ (dpc \notin {"accept", "recv"} /\ curZone = z)
                => dpc = "respond" /\ result = UnexpectedError("load")

\* A request for a zone with a broken info record has been answered.
C35_Witness ==
    \E z \in Zones, c \in Conns :
        /\ zoneDisk[z] = "broken"
        /\ Handled(c)
        /\ Decoded(c) = RequestZoneProcess(z)
        /\ conns[c].resp.tag = "Error"
        /\ conns[c].respBuf = send_response(UnexpectedError("load"))

\* directory / regular file / symlink, or none of the three.
Classification(t) == IF t \in {"dir", "file", "symlink"} THEN t ELSE "other"

\* C36: metadata_matches(x, y) is true exactly when x and y have the same
\* length, modification times that can both be read and are equal, the same
\* permissions and the same classification of the file type; it gives the
\* same for (y, x).
C36_MatchesIsEqualityOfFour ==
    cmp.pc = "done"
    => /\ cmp.matches <=>
            /\ cmp.x.len = cmp.y.len
            /\ cmp.x.mtime # NoTime /\ cmp.y.mtime # NoTime
            /\ cmp.x.mtime = cmp.y.mtime
            /\ cmp.x.perm = cmp.y.perm
            /\ Classification(cmp.x.type) = Classification(cmp.y.type)
       /\ cmp.matches = metadata_matches(cmp.y, cmp.x)

\* Two regular files with the four attributes equal have been found to match.
C36_Witness ==
    /\ cmp.pc = "done"
    /\ cmp.matches
    /\ cmp.x.type = "file" /\ cmp.y.type = "file"
    /\ cmp.x.perm = 755

\* How often path p occurs in a list of a plan.
Occurrences(items, p) ==
    Cardinality({i \in 1..Len(items) : items[i].rel_path = p})

\* The position of path p in the walk.
WalkIndex(p) == CHOOSE i \in 1..Len(walkOrder) : walkOrder[i] = p

\* The list keeps the order of the walk.
InWalkOrder(items) ==
    \A i \in 1..Len(items), j \in 1..Len(items) :
        i < j => WalkIndex(items[i].rel_path) < WalkIndex(items[j].rel_path)

\* C37: in a plan, every entry of the change layer that is not a directory
\* occurs exactly once in updates, conflicts and skips taken together, a
\* directory and a path that is not in the change layer occur in none, and
\* each list is in the order of the walk.
C37_PlanPartitionsChanges ==
    mpc = "planned"
    => /\ \A p \in Paths :
            Occurrences(plan.updates, p) + Occurrences(plan.conflicts, p)
              + Occurrences(plan.skips, p)
            = IF changes[p].st # "absent" /\ changes[p].type # "dir"
              THEN 1 ELSE 0
       /\ InWalkOrder(plan.updates)
       /\ InWalkOrder(plan.conflicts)
       /\ InWalkOrder(plan.skips)

\* A plan of a walk that yields b.txt before a.txt: both are updates, in
\* the order of the walk.
C37_Witness ==
    /\ mpc = "planned"
    /\ walkOrder = <<"b.txt", "a.txt">>
    /\ Len(plan.updates) = 2
    /\ plan.updates[1].rel_path = "b.txt"
    /\ plan.updates[2].rel_path = "a.txt"
    /\ plan.conflicts = <<>> /\ plan.skips = <<>>

\* Creator c has made the zone directory of its zone.
MadeZoneDir(c) ==
    \/ creators[c].pc \in {"changes", "work", "mount", "write_info"}
    \/ creators[c].result \in {"ok", "err_changes", "err_work", "err_mount", "err_info"}

\* C38: of the Zone::create calls for one zone name at most one gets past
\* create_dir(zone_dir), so at most one succeeds; only that call changes
\* what is under the zone directory, and a call that has failed changes
\* nothing.
C38_OneCreatorWins ==
    /\ [](\A z \in Zones :
            /\ Cardinality({c \in Creators :
                    creators[c].zone = z /\ MadeZoneDir(c)}) <= 1
            /\ \A c \in Creators :
                  (creators[c].zone = z /\ creators[c].result = "ok")
                  => /\ MadeZoneDir(c)
                     /\ zoneFs[z] = CompleteZone(creators[c].snap))
    /\ [][\A z \in Zones :
            zoneFs'[z] # zoneFs[z]
            => \E c \in Creators :
                 /\ creators[c].zone = z
                 /\ creators'[c] # creators[c]
                 /\ creators[c].result = "none"
                 /\ \A d \in Creators \ {c} :
                       creators[d].zone = z => ~MadeZoneDir(d)]_vars

\* Two calls for one zone, with different snapshots: one has succeeded, the
\* other has failed on the directory, and the zone is as the first made it.
C38_Witness ==
    \E c \in Creators, d \in Creators, z \in Zones :
        /\ creators[c].zone = z /\ creators[d].zone = z
        /\ creators[c].snap # creators[d].snap
        /\ ~creators[d].existed
        /\ creators[c].result = "ok"
        /\ creators[d].result = "err_exists"
        /\ zoneFs[z].info = creators[c].snap

\* The steps of run, in the order of lib.rs:163-189.
RunOrder == <<"snapshot", "create", "enter", "spawn", "wait", "merge", "exit">>

\* C39: mzr run takes the snapshot, creates the zone, enters it, runs the
\* command until it has terminated, runs the merge and exits, in this
\* order; the merge is not started before the command has terminated, and
\* the process exits with the exit code of the command, or with 128 plus
\* the number of the signal that killed it.
C39_RunOrderAndStatus ==
    \A r \in Runners :
        LET log == runners[r].log IN
        /\ Len(log) <= Len(RunOrder)
        /\ \A i \in 1..Len(log) : log[i] = RunOrder[i]
        /\ (runners[r].pc \in {"merge", "exit", "exited"})
             <=> runners[r].status # NoStatus
        /\ runners[r].pc = "exited"
             => /\ log = RunOrder
                /\ runners[r].exit =
                     IF runners[r].status.kind = "code"
                     THEN runners[r].status.n
                     ELSE 128 + runners[r].status.n
        /\ runners[r].exit # NoExit => runners[r].pc = "exited"

\* A run has exited with 137 after its command was killed by signal 9, and
\* another with the exit code 255 of its command.
C39_Witness ==
    \E r \in Runners, q \in Runners :
        /\ runners[r].pc = "exited"
        /\ runners[r].status = [kind |-> "signal", n |-> 9]
        /\ runners[r].exit = 137
        /\ runners[q].pc = "exited"
        /\ runners[q].status = [kind |-> "code", n |-> 255]
        /\ runners[q].exit = 255

====
